---- MODULE Spec2Model ----
(***************************************************************************)
(* Braille card and cylinder STL generator: cell decoding, grid sizing and *)
(* feature layout of the four plate builders (static/geometry.js) and of   *)
(* the studio preview builder (studio/app.js).                             *)
(*                                                                         *)
(* Lengths are integers in hundredths of a millimetre.  Coordinates are    *)
(* kept doubled (u2 = 2*x, v2 = 2*y, w2 = 2*z) so that the half pitches    *)
(* the code uses (dotSpacing / 2, height / 2, rowsSpan / 2) stay exact.    *)
(* On a cylinder the angle of a feature is                                 *)
(*   theta = (x / (PI * diameter)) * 2 * PI + thetaOffset                  *)
(*         = (2 * x) / diameter + seam_offset_deg * PI / 180,              *)
(* so a feature's angle is carried as its doubled arc length u2 = 2*x; the *)
(* diameter and the seam offset are the same for every feature of a plate. *)
(***************************************************************************)
EXTENDS Integers, Sequences, FiniteSets

VARIABLES
    cell,             \* last decoded braille cell: character, decoder, dots
    settings,         \* the settings object handed to the builders
    cylinderParams,   \* the cylinderParams object handed to the cylinder builders
    translatedLines,  \* the array of braille lines handed to the builders
    plate,            \* the plate built last
    brushCount,       \* the number of subtract brushes handed to the compositor
    failing,          \* the calls of evaluator.evaluate, by number, that return null
    composite,        \* what the compositor returned
    object3D,         \* the object handed to exportObjectToAsciiSTL: its children
    stl,              \* the facets exportObjectToAsciiSTL wrote
    worker,           \* this.worker of the studio: "none" (null) or "running"
    workerReady,      \* this.workerReady
    liblouisReady,    \* liblouisReady of the worker script
    pendingMessages,  \* the ids this.pendingMessages holds a resolver for
    messageSeq,       \* this.messageSeq
    requests,         \* the requests callWorker made, by id
    toWorker,         \* messages posted to the worker and not yet handled, in order
    toMain,           \* responses posted by the worker and not yet delivered, in order
    translateCalls,   \* the translateText calls made, in order
    storedTranslations, \* this.brailleTranslations, and the call that rendered it
    initializing,     \* the 'init' messages the worker is initializing for
    currentShape,     \* this.currentShape of the studio
    currentPlate,     \* this.currentPlate
    currentMesh,      \* this.currentMesh: none, or the mesh generated last
    scene,            \* the generated meshes in this.scene
    dotCount,         \* this.dotCount: undefined, or a number
    statsDots,        \* the number shown as "Braille Dots"
    serverStlBlob,    \* this.serverStlBlob: none, or the file the server made
    jobs,             \* the generations started by Generate, in order
    saved,            \* the file handed to saveAs last
    status,           \* the status message shown last
    apiBaseUrl,       \* whether this.apiBaseUrl is set
    utilsLoaded       \* whether THREE.BufferGeometryUtils is there

plateVars == <<cell, settings, cylinderParams, translatedLines, plate>>

unionVars == <<brushCount, failing, composite>>

stlVars == <<object3D, stl>>

workerVars == <<worker, workerReady, liblouisReady, pendingMessages, messageSeq,
                requests, toWorker, toMain, translateCalls, storedTranslations,
                initializing>>

studioVars == <<currentShape, currentPlate, currentMesh, scene, dotCount,
                statsDots, serverStlBlob, jobs, saved, status, apiBaseUrl,
                utilsLoaded>>

vars == <<plateVars, unionVars, stlVars, workerVars, studioVars>>

notPlateVars == <<unionVars, stlVars, workerVars, studioVars>>

notUnionVars == <<plateVars, stlVars, workerVars, studioVars>>

notStlVars == <<plateVars, unionVars, workerVars, studioVars>>

notWorkerVars == <<plateVars, unionVars, stlVars, studioVars>>

notStudioVars == <<plateVars, unionVars, stlVars, workerVars>>

\* nothing exported yet
IdleStl == object3D = <<>> /\ stl = [done |-> FALSE, facets |-> <<>>]

\* the studio as constructed: no worker yet, messageSeq = 1
IdleWorker ==
    /\ worker = "none" /\ workerReady = FALSE /\ liblouisReady = FALSE
    /\ pendingMessages = {} /\ messageSeq = 1
    /\ requests = <<>> /\ toWorker = <<>> /\ toMain = <<>> /\ translateCalls = <<>>
    /\ storedTranslations = [call |-> 0, lines |-> [kind |-> "identity", of |-> ""]]
    /\ initializing = <<>>

\* the studio as constructed: a card, the emboss plate, nothing generated
IdleStudio ==
    /\ currentShape = "card" /\ currentPlate = "emboss"
    /\ currentMesh = <<>> /\ scene = {}
    /\ dotCount = <<>> /\ statsDots = <<>>
    /\ serverStlBlob = <<>> /\ jobs = <<>> /\ saved = <<>>
    /\ status = "none" /\ apiBaseUrl = FALSE /\ utilsLoaded = TRUE

----------------------------------------------------------------------------
(* Bounds of the model *)

MaxColumns == 4     \* grid_columns ranges over 0..MaxColumns
MaxRows == 2        \* grid_rows ranges over 0..MaxRows
MaxLineLen == 2     \* a braille line has at most MaxLineLen cells
MaxLines == 2       \* translatedLines has at most MaxLines lines
MaxJitterSeed == 1  \* balancedUnion draws its random offsets from the seeds 0..MaxJitterSeed
MaxBrushes == 6     \* the compositor is handed at most MaxBrushes subtract brushes
MaxFailures == 2    \* at most MaxFailures calls of evaluator.evaluate return null
MaxDots == 2        \* an exported group holds at most MaxDots raised dots
MaxCalls == 2       \* the user edits the text at most MaxCalls times
MaxForeign == 1     \* at most MaxForeign messages that are not the studio's in a channel
MaxClicks == 2      \* the user clicks Generate at most MaxClicks times

----------------------------------------------------------------------------
(* JavaScript values: a property is <<>> when undefined, <<v>> when set *)

U == <<>>

Def(v) == <<v>>

Truthy(o) == o # U /\ o[1] # 0

JsOr(a, b) == IF Truthy(a) THEN a ELSE b

Min(a, b) == IF a < b THEN a ELSE b

Max(a, b) == IF a > b THEN a ELSE b

toNumber(o, fallback) == IF o = U THEN fallback ELSE o[1]

----------------------------------------------------------------------------
(* Braille cells *)

BrailleBase == 10240      \* 0x2800

BrailleLast == 10495      \* 0x28FF

TwoPow(i) == IF i = 0 THEN 1 ELSE IF i = 1 THEN 2 ELSE IF i = 2 THEN 4
             ELSE IF i = 3 THEN 8 ELSE IF i = 4 THEN 16 ELSE IF i = 5 THEN 32
             ELSE 64

\* (x & (1 << i)) ? 1 : 0 on the two's complement of x: the low bits of a
\* negative x are those of x modulo a power of two.
BitAnd1(x, i) == (x % TwoPow(i + 1)) \div TwoPow(i)

NoDots == [i \in 1..6 |-> 0]

Patterns == [1..6 -> {0, 1}]

\* the character that encodes a pattern: U+2800 + bitmask, bit i-1 for dot i
Encode(p) == BrailleBase + p[1] + 2 * p[2] + 4 * p[3] + 8 * p[4] + 16 * p[5] + 32 * p[6]

brailleUnicodeToDotsShifted(ch) ==
    LET pattern == ch - BrailleBase
    IN  [i \in 1..6 |-> BitAnd1(pattern, i)]

brailleUnicodeToDots(ch) ==
    LET code == ch
        pattern == code - BrailleBase
    IN  [i \in 1..6 |-> BitAnd1(pattern, i - 1)]

brailleCharToDots(ch) ==
    IF ch = 32 THEN NoDots
    ELSE IF ch < BrailleBase \/ ch > BrailleLast THEN NoDots
    ELSE LET bits == ch - BrailleBase
         IN  [i \in 1..6 |-> BitAnd1(bits, i - 1)]

\* characters handed to the decoders: every six-dot cell, cells with dots 7
\* and 8, and pass-through text (NUL, space, digits, letters, a CJK character)
CodePoints == (BrailleBase..(BrailleBase + 63))
              \cup {BrailleBase + 64, BrailleBase + 129, BrailleLast}
              \cup {0, 10, 32, 48, 65, 97, 122, 127, 255, 10239, 10496, 20013}

NoCell == [ch |-> 0, decoder |-> "none", dots |-> NoDots]

\* buildCardEmbossingPlate and the other geometry.js builders decode with
\* brailleUnicodeToDots
DecodeStatic ==
    \E ch \in CodePoints :
        /\ cell' = [ch |-> ch, decoder |-> "static", dots |-> brailleUnicodeToDots(ch)]
        /\ UNCHANGED <<settings, cylinderParams, translatedLines, plate>>
        /\ UNCHANGED notPlateVars

\* createEmbossingPlate of the studio decodes with brailleCharToDots
DecodeStudio ==
    \E ch \in CodePoints :
        /\ cell' = [ch |-> ch, decoder |-> "studio", dots |-> brailleCharToDots(ch)]
        /\ UNCHANGED <<settings, cylinderParams, translatedLines, plate>>
        /\ UNCHANGED notPlateVars

----------------------------------------------------------------------------
(* Grid sizing *)

DefaultGridColumns == 26

DefaultGridRows == 4

ReservedColumns == 2

getAvailableColumns(s) ==
    LET gridColumns == JsOr(JsOr(s.grid_columns, s.gridColumns), Def(DefaultGridColumns))[1]
    IN  Max(0, gridColumns - ReservedColumns)

getGridRows(s) ==
    JsOr(JsOr(s.grid_rows, s.gridRows), Def(DefaultGridRows))[1]

----------------------------------------------------------------------------
(* Features.  kind: dot (raised), recess (dot recess), indicatorStart        *)
(* (rectangle), indicatorEnd (triangle), bore.  u2, v2: doubled plate-space  *)
(* x and y (on a cylinder: doubled arc length and doubled axial coordinate   *)
(* from the midplane).  w2: doubled z on a card, doubled radial distance on  *)
(* a cylinder.  orient: where the solid's +Z points.  jit: the signs of the  *)
(* random offsets balancedUnion added to the position.  seam: the seam      *)
(* offset, in degrees, added to the angle of a feature placed on a cylinder. *)

Feature(kind, op, row, col, slot, u2, v2, w2, orient) ==
    [kind |-> kind, op |-> op, row |-> row, col |-> col, slot |-> slot,
     u2 |-> u2, v2 |-> v2, w2 |-> w2, orient |-> orient, jit |-> <<0, 0, 0>>,
     seam |-> 0]

\* theta = (x / circumference) * Math.PI * 2 + thetaOffset
AtTheta(f, thetaOffsetDeg) == [f EXCEPT !.seam = thetaOffsetDeg]

\* thetaOffset = toNumber(cylinderParams.seam_offset_deg, 355) * Math.PI / 180
SeamOffsetDeg(cp) == toNumber(cp.seam_offset_deg, 355)

RECURSIVE Flatten(_)
Flatten(ss) == IF ss = <<>> THEN <<>> ELSE Head(ss) \o Flatten(Tail(ss))

IsOn(e) == e.on = 1

Stripped(es) == [k \in 1..Len(es) |-> es[k].f]

\* (translatedLines[rowIdx] || '')
LineAt(lines, rowIdx) == IF rowIdx + 1 <= Len(lines) THEN lines[rowIdx + 1] ELSE <<>>

\* line.slice(0, n), n >= 0
Slice0(line, n) == SubSeq(line, 1, Min(Len(line), n))

\* dotIndexToRowCol = [[0,0],[1,0],[2,0],[0,1],[1,1],[2,1]]
DotRow(i) == i % 3

DotCol(i) == i \div 3

\* doubled dotColOffsets = [-dotSpacing / 2, dotSpacing / 2]
ColOffset2(c, dotSpacing) == IF c = 0 THEN 0 - dotSpacing ELSE dotSpacing

\* dotRowOffsets = [dotSpacing, 0, -dotSpacing]
RowOffset(r, dotSpacing) == IF r = 0 THEN dotSpacing ELSE IF r = 1 THEN 0 ELSE 0 - dotSpacing

\* Math.min(0.8, Math.max(0.2, toNumber(settings.indicator_recess_depth, 0.5)))
IndicatorRecessDepth(s) == Min(80, Max(20, toNumber(s.indicator_recess_depth, 50)))

----------------------------------------------------------------------------
(* balancedUnion *)

JitterSeeds == 0..MaxJitterSeed

\* sign of (Math.random() - 0.5) * epsilon for the k-th number drawn
JitterSign(seed, k) == IF seed = 0 THEN 0 ELSE ((seed + k) % 3) - 1

\* brushes.forEach: brush.position.{x,y,z} += (Math.random() - 0.5) * epsilon
Jittered(brushes, seed) ==
    [k \in 1..Len(brushes) |->
        [brushes[k] EXCEPT !.jit = <<JitterSign(seed, 3 * k - 2),
                                     JitterSign(seed, 3 * k - 1),
                                     JitterSign(seed, 3 * k)>>]]

RECURSIVE ReduceLevels(_)
ReduceLevels(level) ==
    IF Len(level) <= 1 THEN level
    ELSE ReduceLevels([k \in 1..((Len(level) + 1) \div 2) |->
            IF 2 * k <= Len(level)
            THEN [op |-> "ADDITION", a |-> level[2 * k - 1], b |-> level[2 * k]]
            ELSE level[2 * k - 1]])

\* the union tree over the positions 1..n of the brushes; <<>> stands for null
balancedUnion(n) ==
    IF n = 0 THEN <<>>
    ELSE ReduceLevels([k \in 1..n |-> [leaf |-> k]])

----------------------------------------------------------------------------
(* Card embossing plate (static/geometry.js) *)

\* the dot meshes of one row: for (col) for (i) if (!dots[i]) continue; ...
CardEmbossRowDots(brailleText, rowIdx, s) ==
    LET dotSpacing == toNumber(s.dot_spacing, 254)
        leftMargin == toNumber(s.left_margin, 800)
        topMargin == toNumber(s.top_margin, 800)
        cellSpacing == toNumber(s.cell_spacing, 600)
        lineSpacing == toNumber(s.line_spacing, 1000)
        zTop == toNumber(s.card_thickness, 160)
        xAdjust == toNumber(s.braille_x_adjust, 0)
        yAdjust == toNumber(s.braille_y_adjust, 0)
        yPos == toNumber(s.card_height, 5400) - topMargin - (rowIdx * lineSpacing) + yAdjust
        cand == [k \in 1..(6 * Len(brailleText)) |->
                    LET col == (k - 1) \div 6
                        i == (k - 1) % 6
                        dots == brailleUnicodeToDots(brailleText[col + 1])
                        xCell == leftMargin + ((col + 1) * cellSpacing) + xAdjust
                    IN  [on |-> dots[i + 1],
                         f |-> Feature("dot", "union", rowIdx, col, i + 1,
                                       2 * xCell + ColOffset2(DotCol(i), dotSpacing),
                                       2 * (yPos + RowOffset(DotRow(i), dotSpacing)),
                                       2 * zTop, "+z")]]
    IN  Stripped(SelectSeq(cand, IsOn))

buildCardEmbossingPlateUntruncated(lines, s) ==
    LET debugTriangleOnly == s.debug_triangle_only
        availableColumns == getAvailableColumns(s)
        gridRows == getGridRows(s)
        dots == IF ~debugTriangleOnly
                THEN Flatten([r \in 1..gridRows |->
                        CardEmbossRowDots(LineAt(lines, r - 1), r - 1, s)])
                ELSE <<>>
    IN  [builder |-> "buildCardEmbossingPlate", shape |-> "card", type |-> "emboss",
         availableColumns |-> availableColumns, gridRows |-> gridRows,
         subtract |-> <<>>, dots |-> dots, union |-> <<>>,
         group |-> <<"base">> \o [k \in 1..Len(dots) |-> "dot"],
         dotCount |-> 0]

buildCardEmbossingPlate(lines, s) ==
    LET debugTriangleOnly == s.debug_triangle_only
        availableColumns == getAvailableColumns(s)
        gridRows == getGridRows(s)
        dots == IF ~debugTriangleOnly
                THEN Flatten([r \in 1..gridRows |->
                        CardEmbossRowDots(Slice0(LineAt(lines, r - 1), availableColumns), r - 1, s)])
                ELSE <<>>
    IN  [builder |-> "buildCardEmbossingPlate", shape |-> "card", type |-> "emboss",
         availableColumns |-> availableColumns, gridRows |-> gridRows,
         subtract |-> <<>>, dots |-> dots, union |-> <<>>,
         group |-> <<"base">> \o [k \in 1..Len(dots) |-> "dot"],
         dotCount |-> 0]

----------------------------------------------------------------------------
(* Cylinder embossing plate (static/geometry.js) *)

\* the 12-gon cutout along the cylinder axis
BoreFeature == Feature("bore", "subtract", -1, -1, 0, 0, 0, 0, "axis")

CutoutBrushesNonNegative(cp, debugTriangleOnly) ==
    IF toNumber(cp.polygonal_cutout_radius_mm, 0) >= 0 /\ ~debugTriangleOnly
    THEN <<AtTheta(BoreFeature, SeamOffsetDeg(cp))>> ELSE <<>>

\* if (cutoutInscribed > 0 && !debugTriangleOnly) subtractBrushes.push(cutoutBrush)
CutoutBrushes(cp, debugTriangleOnly) ==
    IF toNumber(cp.polygonal_cutout_radius_mm, 0) > 0 /\ ~debugTriangleOnly
    THEN <<AtTheta(BoreFeature, SeamOffsetDeg(cp))>> ELSE <<>>

CylinderEmbossRowIndicatorsInverted(rowIdx, s, cp) ==
    LET debugTriangleOnly == s.debug_triangle_only
        diameter == toNumber(cp.diameter_mm, 3135)
        dotSpacing == toNumber(s.dot_spacing, 254)
        cellSpacing == toNumber(s.cell_spacing, 600)
        leftMargin == toNumber(s.left_margin, 800)
        lineSpacing == toNumber(s.line_spacing, 1000)
        xAdjust == toNumber(s.braille_x_adjust, 0)
        yAdjust == toNumber(s.braille_y_adjust, 0)
        availableColumns == getAvailableColumns(s)
        gridRows == getGridRows(s)
        rowsSpan == (gridRows - 1) * lineSpacing
        recessDepth == IndicatorRecessDepth(s)
        \* zLocal = (height / 2) + yAdjust + (rowsSpan / 2 - rowIdx * lineSpacing) - height / 2
        zLocal2 == 2 * yAdjust + rowsSpan - 2 * rowIdx * lineSpacing
        xCellStart == leftMargin + xAdjust
        xCellEnd == leftMargin + ((availableColumns + 1) * cellSpacing) + xAdjust
        rect == AtTheta(Feature("indicatorStart", "subtract", rowIdx, -1, 0,
                                2 * xCellStart - dotSpacing, zLocal2,
                                diameter - 2 * recessDepth, "out"), SeamOffsetDeg(cp))
        tri == AtTheta(Feature("indicatorEnd", "subtract", rowIdx, availableColumns, 0,
                               2 * xCellEnd - dotSpacing, zLocal2,
                               diameter - 2 * recessDepth, "in"), SeamOffsetDeg(cp))
    IN  (IF debugTriangleOnly THEN <<rect>> ELSE <<>>) \o <<tri>>

\* the rectangle and the triangle of one row of the cylinder embossing plate
CylinderEmbossRowIndicators(rowIdx, s, cp) ==
    LET debugTriangleOnly == s.debug_triangle_only
        diameter == toNumber(cp.diameter_mm, 3135)
        dotSpacing == toNumber(s.dot_spacing, 254)
        cellSpacing == toNumber(s.cell_spacing, 600)
        leftMargin == toNumber(s.left_margin, 800)
        lineSpacing == toNumber(s.line_spacing, 1000)
        xAdjust == toNumber(s.braille_x_adjust, 0)
        yAdjust == toNumber(s.braille_y_adjust, 0)
        availableColumns == getAvailableColumns(s)
        gridRows == getGridRows(s)
        rowsSpan == (gridRows - 1) * lineSpacing
        recessDepth == IndicatorRecessDepth(s)
        \* zLocal = (height / 2) + yAdjust + (rowsSpan / 2 - rowIdx * lineSpacing) - height / 2
        zLocal2 == 2 * yAdjust + rowsSpan - 2 * rowIdx * lineSpacing
        xCellStart == leftMargin + xAdjust
        xCellEnd == leftMargin + ((availableColumns + 1) * cellSpacing) + xAdjust
        rect == AtTheta(Feature("indicatorStart", "subtract", rowIdx, -1, 0,
                                2 * xCellStart - dotSpacing, zLocal2,
                                diameter - 2 * recessDepth, "out"), SeamOffsetDeg(cp))
        tri == AtTheta(Feature("indicatorEnd", "subtract", rowIdx, availableColumns, 0,
                               2 * xCellEnd - dotSpacing, zLocal2,
                               diameter - 2 * recessDepth, "in"), SeamOffsetDeg(cp))
    IN  (IF ~debugTriangleOnly THEN <<rect>> ELSE <<>>) \o <<tri>>

\* the dot meshes of one row of the cylinder embossing plate
CylinderEmbossRowDots(brailleText, rowIdx, s, cp) ==
    LET diameter == toNumber(cp.diameter_mm, 3135)
        height == toNumber(cp.height_mm, toNumber(s.card_height, 5400))
        dotSpacingLocal == toNumber(s.dot_spacing, 254)
        cellSpacingLocal == toNumber(s.cell_spacing, 600)
        leftMarginLocal == toNumber(s.left_margin, 800)
        lineSpacingLocal == toNumber(s.line_spacing, 1000)
        xAdjust == toNumber(s.braille_x_adjust, 0)
        yAdjust == toNumber(s.braille_y_adjust, 0)
        yLocalPlanar == toNumber(s.card_height, 5400) - toNumber(s.top_margin, 800)
                        - (rowIdx * lineSpacingLocal) + yAdjust
        cand == [k \in 1..(6 * Len(brailleText)) |->
                    LET col == (k - 1) \div 6
                        i == (k - 1) % 6
                        dots == brailleUnicodeToDots(brailleText[col + 1])
                        xCell == leftMarginLocal + ((col + 1) * cellSpacingLocal) + xAdjust
                    IN  [on |-> dots[i + 1],
                         \* zLocal = (yLocalPlanar + dotRowOffsets[r]) + zCenterOffset
                         f |-> AtTheta(Feature("dot", "union", rowIdx, col, i + 1,
                                       2 * xCell + ColOffset2(DotCol(i), dotSpacingLocal),
                                       2 * (yLocalPlanar + RowOffset(DotRow(i), dotSpacingLocal)) - height,
                                       diameter, "out"), SeamOffsetDeg(cp))]]
    IN  Stripped(SelectSeq(cand, IsOn))

buildCylinderEmbossingPlate(lines, s, cp, seed) ==
    LET debugTriangleOnly == s.debug_triangle_only
        availableColumns == getAvailableColumns(s)
        gridRows == getGridRows(s)
        subtractBrushes ==
            CutoutBrushes(cp, debugTriangleOnly)
            \o Flatten([r \in 1..gridRows |-> CylinderEmbossRowIndicators(r - 1, s, cp)])
        unionSubtract == balancedUnion(Len(subtractBrushes))
        result == IF unionSubtract # <<>>
                  THEN [op |-> "SUBTRACTION", a |-> "base", b |-> unionSubtract[1]]
                  ELSE [op |-> "NONE", a |-> "base", b |-> [leaf |-> 0]]
        dots == IF ~debugTriangleOnly
                THEN Flatten([r \in 1..gridRows |->
                        CylinderEmbossRowDots(Slice0(LineAt(lines, r - 1), availableColumns),
                                              r - 1, s, cp)])
                ELSE <<>>
    IN  [builder |-> "buildCylinderEmbossingPlate", shape |-> "cylinder", type |-> "emboss",
         availableColumns |-> availableColumns, gridRows |-> gridRows,
         subtract |-> IF subtractBrushes # <<>> THEN Jittered(subtractBrushes, seed) ELSE <<>>,
         dots |-> dots, union |-> <<result>>,
         group |-> <<"result">> \o [k \in 1..Len(dots) |-> "dot"],
         dotCount |-> 0]

----------------------------------------------------------------------------
(* Card counter plate (static/geometry.js) *)

\* the dot recesses of one row: for (col) for (c) for (r) ...
CardCounterRowRecesses(rowIdx, s) ==
    LET dotSpacing == toNumber(s.dot_spacing, 254)
        leftMargin == toNumber(s.left_margin, 800)
        topMargin == toNumber(s.top_margin, 800)
        cellSpacing == toNumber(s.cell_spacing, 600)
        lineSpacing == toNumber(s.line_spacing, 1000)
        xAdjust == toNumber(s.braille_x_adjust, 0)
        yAdjust == toNumber(s.braille_y_adjust, 0)
        availableColumns == getAvailableColumns(s)
        t == toNumber(s.card_thickness, 160)
        yPos == toNumber(s.card_height, 5400) - topMargin - (rowIdx * lineSpacing) + yAdjust
    IN  [k \in 1..(6 * availableColumns) |->
            LET col == (k - 1) \div 6
                c == ((k - 1) % 6) \div 3
                r == (k - 1) % 3
                xCell == leftMargin + ((col + 1) * cellSpacing) + xAdjust
            IN  Feature("recess", "subtract", rowIdx, col, 3 * c + r + 1,
                        2 * xCell + ColOffset2(c, dotSpacing),
                        2 * (yPos + RowOffset(r, dotSpacing)),
                        2 * t, "+z")]

CardCounterRowIndicatorsNoRect(rowIdx, s) ==
    LET debugTriangleOnly == s.debug_triangle_only
        dotSpacing == toNumber(s.dot_spacing, 254)
        leftMargin == toNumber(s.left_margin, 800)
        topMargin == toNumber(s.top_margin, 800)
        cellSpacing == toNumber(s.cell_spacing, 600)
        lineSpacing == toNumber(s.line_spacing, 1000)
        xAdjust == toNumber(s.braille_x_adjust, 0)
        yAdjust == toNumber(s.braille_y_adjust, 0)
        availableColumns == getAvailableColumns(s)
        t == toNumber(s.card_thickness, 160)
        recessDepth == IndicatorRecessDepth(s)
        yPos == toNumber(s.card_height, 5400) - topMargin - (rowIdx * lineSpacing) + yAdjust
        xCellStart == leftMargin + xAdjust - dotSpacing
        xCellEnd == leftMargin + ((availableColumns + 1) * cellSpacing) + xAdjust
        \* 2 * Math.min(recessDepth, t * 0.8)
        effectiveIndicatorDepth2 == Min(2 * recessDepth, (8 * t) \div 5)
        rect == Feature("indicatorStart", "subtract", rowIdx, -1, 0,
                        2 * xCellStart, 2 * yPos, 2 * t - effectiveIndicatorDepth2, "+z")
        tri == Feature("indicatorEnd", "subtract", rowIdx, availableColumns, 0,
                       2 * xCellEnd, 2 * yPos, 2 * t - effectiveIndicatorDepth2, "+z")
    IN  <<tri>>

\* the rectangle and the triangle of one row of the card counter plate
CardCounterRowIndicators(rowIdx, s) ==
    LET debugTriangleOnly == s.debug_triangle_only
        dotSpacing == toNumber(s.dot_spacing, 254)
        leftMargin == toNumber(s.left_margin, 800)
        topMargin == toNumber(s.top_margin, 800)
        cellSpacing == toNumber(s.cell_spacing, 600)
        lineSpacing == toNumber(s.line_spacing, 1000)
        xAdjust == toNumber(s.braille_x_adjust, 0)
        yAdjust == toNumber(s.braille_y_adjust, 0)
        availableColumns == getAvailableColumns(s)
        t == toNumber(s.card_thickness, 160)
        recessDepth == IndicatorRecessDepth(s)
        yPos == toNumber(s.card_height, 5400) - topMargin - (rowIdx * lineSpacing) + yAdjust
        xCellStart == leftMargin + xAdjust - dotSpacing
        xCellEnd == leftMargin + ((availableColumns + 1) * cellSpacing) + xAdjust
        \* 2 * Math.min(recessDepth, t * 0.8)
        effectiveIndicatorDepth2 == Min(2 * recessDepth, (8 * t) \div 5)
        rect == Feature("indicatorStart", "subtract", rowIdx, -1, 0,
                        2 * xCellStart, 2 * yPos, 2 * t - effectiveIndicatorDepth2, "+z")
        tri == Feature("indicatorEnd", "subtract", rowIdx, availableColumns, 0,
                       2 * xCellEnd, 2 * yPos, 2 * t - effectiveIndicatorDepth2, "+z")
    IN  (IF ~debugTriangleOnly THEN <<rect>> ELSE <<>>) \o <<tri>>

\* subtractBrushes.length === 1 skips the union; otherwise balancedUnion
\* jitters the brushes and unites them; the base minus the union, or the base
SubtractResult(subtractBrushes) ==
    LET subtractBrush == IF Len(subtractBrushes) = 1 THEN <<[leaf |-> 1]>>
                         ELSE balancedUnion(Len(subtractBrushes))
    IN  IF subtractBrush # <<>>
        THEN [op |-> "SUBTRACTION", a |-> "base", b |-> subtractBrush[1]]
        ELSE [op |-> "NONE", a |-> "base", b |-> [leaf |-> 0]]

SubtractJittered(subtractBrushes, seed) ==
    IF Len(subtractBrushes) <= 1 THEN subtractBrushes ELSE Jittered(subtractBrushes, seed)

buildCardCounterPlate(s, seed) ==
    LET debugTriangleOnly == s.debug_triangle_only
        availableColumns == getAvailableColumns(s)
        gridRows == getGridRows(s)
        subtractBrushes ==
            (IF ~debugTriangleOnly
             THEN Flatten([r \in 1..gridRows |-> CardCounterRowRecesses(r - 1, s)])
             ELSE <<>>)
            \o Flatten([r \in 1..gridRows |-> CardCounterRowIndicators(r - 1, s)])
    IN  [builder |-> "buildCardCounterPlate", shape |-> "card", type |-> "counter",
         availableColumns |-> availableColumns, gridRows |-> gridRows,
         subtract |-> SubtractJittered(subtractBrushes, seed),
         dots |-> <<>>, union |-> <<SubtractResult(subtractBrushes)>>,
         group |-> <<"result">>, dotCount |-> 0]

----------------------------------------------------------------------------
(* Cylinder counter plate (static/geometry.js) *)

CylinderCounterRow(rowIdx, s, cp) ==
    LET debugTriangleOnly == s.debug_triangle_only
        diameter == toNumber(cp.diameter_mm, 3135)
        cellSpacing == toNumber(s.cell_spacing, 600)
        leftMargin == toNumber(s.left_margin, 800)
        dotSpacing == toNumber(s.dot_spacing, 254)
        lineSpacing == toNumber(s.line_spacing, 1000)
        xAdjust == toNumber(s.braille_x_adjust, 0)
        yAdjust == toNumber(s.braille_y_adjust, 0)
        availableColumns == getAvailableColumns(s)
        gridRows == getGridRows(s)
        rowsSpan == (gridRows - 1) * lineSpacing
        recessDepth == IndicatorRecessDepth(s)
        \* zLocal = (height / 2) + yAdjust + (rowsSpan / 2 - rowIdx * lineSpacing) - height / 2
        zLocal2 == 2 * yAdjust + rowsSpan - 2 * rowIdx * lineSpacing
        recesses == [k \in 1..(6 * availableColumns) |->
            LET col == (k - 1) \div 6
                c == ((k - 1) % 6) \div 3
                r == (k - 1) % 3
                xCell == leftMargin + ((col + 1) * cellSpacing) + xAdjust
            IN  AtTheta(Feature("recess", "subtract", rowIdx, col, 3 * c + r + 1,
                                2 * xCell + ColOffset2(c, dotSpacing),
                                zLocal2 + 2 * RowOffset(r, dotSpacing),
                                diameter, "out"), SeamOffsetDeg(cp))]
        xCellStart == leftMargin + xAdjust - dotSpacing
        xCellEnd == leftMargin + ((availableColumns + 1) * cellSpacing) + xAdjust
        rect == AtTheta(Feature("indicatorStart", "subtract", rowIdx, -1, 0,
                                2 * xCellStart, zLocal2, diameter - 2 * recessDepth, "out"),
                        SeamOffsetDeg(cp))
        tri == AtTheta(Feature("indicatorEnd", "subtract", rowIdx, availableColumns, 0,
                               2 * xCellEnd, zLocal2, diameter - 2 * recessDepth, "in"),
                       SeamOffsetDeg(cp))
    IN  (IF ~debugTriangleOnly THEN recesses ELSE <<>>)
        \o (IF ~debugTriangleOnly THEN <<rect>> ELSE <<>>) \o <<tri>>

buildCylinderCounterPlate(s, cp, seed) ==
    LET debugTriangleOnly == s.debug_triangle_only
        availableColumns == getAvailableColumns(s)
        gridRows == getGridRows(s)
        subtractBrushes ==
            CutoutBrushes(cp, debugTriangleOnly)
            \o Flatten([r \in 1..gridRows |-> CylinderCounterRow(r - 1, s, cp)])
    IN  [builder |-> "buildCylinderCounterPlate", shape |-> "cylinder", type |-> "counter",
         availableColumns |-> availableColumns, gridRows |-> gridRows,
         subtract |-> SubtractJittered(subtractBrushes, seed),
         dots |-> <<>>, union |-> <<SubtractResult(subtractBrushes)>>,
         group |-> <<"result">>, dotCount |-> 0]

----------------------------------------------------------------------------
(* Studio preview (studio/app.js) *)

\* Math.max(0, (this.settings.grid_columns || 14) - 2) and the four lines
buildBrailleLinesForServer(s, brailleTranslations) ==
    LET availableColumns == Max(0, JsOr(s.grid_columns, Def(14))[1] - 2)
    IN  [i \in 1..4 |-> Slice0(LineAt(brailleTranslations, i - 1), availableColumns)]

StudioRowDots(line, row, s) ==
    LET startCol == IF Truthy(s.indicator_shapes) THEN 1 ELSE 0
        maxCols == s.grid_columns[1] - (IF Truthy(s.indicator_shapes) THEN 2 ELSE 0)
        \* y = s.card_height/2 - s.top_margin - (row * s.line_spacing)
        y2 == s.card_height[1] - 2 * s.top_margin[1] - 2 * (row * s.line_spacing[1])
        cand == [k \in 1..(6 * Min(Len(line), maxCols)) |->
                    LET col == (k - 1) \div 6
                        i == (k - 1) % 6
                        ch == line[col + 1]
                        x2 == 2 * s.left_margin[1] - s.card_width[1]
                              + 2 * ((col + startCol) * s.cell_spacing[1])
                        pattern == brailleCharToDots(ch)
                    IN  [on |-> IF ch = 32 \/ ch = BrailleBase THEN 0 ELSE pattern[i + 1],
                         f |-> Feature("dot", "union", row, col, i + 1,
                                       x2 + ColOffset2(DotCol(i), s.dot_spacing[1])
                                          + 2 * s.braille_x_adjust[1],
                                       y2 + 2 * RowOffset(DotRow(i), s.dot_spacing[1])
                                          + 2 * s.braille_y_adjust[1],
                                       s.card_thickness[1] + s.emboss_dot_height[1], "+z")]]
    IN  Stripped(SelectSeq(cand, IsOn))

createEmbossingPlate(s, brailleTranslations) ==
    LET rows == Min(s.grid_rows[1], Len(brailleTranslations))
        dots == Flatten([r \in 1..rows |->
                    StudioRowDots(brailleTranslations[r], r - 1, s)])
    IN  [builder |-> "createEmbossingPlate", shape |-> "card", type |-> "emboss",
         availableColumns |-> s.grid_columns[1] - (IF Truthy(s.indicator_shapes) THEN 2 ELSE 0),
         gridRows |-> s.grid_rows[1],
         subtract |-> <<>>, dots |-> dots, union |-> <<>>,
         group |-> <<"finalGeo">>, dotCount |-> Len(dots)]

----------------------------------------------------------------------------
(* Inputs *)

\* a raised cell (dots 1, 3, 6) and a pass-through letter (A)
Alphabet == {BrailleBase + 37, 65}

Lines == {[k \in 1..n |-> ch] : n \in 0..MaxLineLen, ch \in Alphabet}

\* arrays of up to MaxLines lines: every row the same line, or the rows in
\* blank left empty
LineArrays == {[k \in 1..n |-> IF k \in blank THEN <<>> ELSE l] :
                  n \in 0..MaxLines, l \in Lines, blank \in {{}, {1}}}

\* settings.grid_columns and settings.gridColumns
GridColumnInputs == {<<Def(c), U>> : c \in 0..MaxColumns}
                    \cup {<<U, U>>, <<U, Def(3)>>}

\* settings.grid_rows and settings.gridRows
GridRowInputs == {<<Def(r), U>> : r \in 0..MaxRows}
                 \cup {<<U, U>>, <<U, Def(1)>>}

\* a settings object that leaves every dimension to the builders' defaults
BareSettings(gc, gr, ind, dbg) ==
    [grid_columns |-> gc[1], gridColumns |-> gc[2],
     grid_rows |-> gr[1], gridRows |-> gr[2],
     card_width |-> U, card_height |-> U, card_thickness |-> U,
     cell_spacing |-> U, line_spacing |-> U, dot_spacing |-> U,
     emboss_dot_height |-> U,
     braille_x_adjust |-> U, braille_y_adjust |-> U,
     left_margin |-> U, top_margin |-> U,
     indicator_recess_depth |-> U,
     indicator_shapes |-> ind, debug_triangle_only |-> dbg]

\* getDefaultSettings followed by updateComputedSettings
StudioSettings(gc, gr, ind, dbg) ==
    LET columns == toNumber(gc[1], 14)
        rows == toNumber(gr[1], 4)
        gridWidth == (columns - 1) * 650
        gridHeight == (rows - 1) * 1000
    IN  [grid_columns |-> gc[1], gridColumns |-> gc[2],
         grid_rows |-> gr[1], gridRows |-> gr[2],
         card_width |-> Def(8800), card_height |-> Def(5100), card_thickness |-> Def(300),
         cell_spacing |-> Def(650), line_spacing |-> Def(1000), dot_spacing |-> Def(250),
         emboss_dot_height |-> Def(100),
         braille_x_adjust |-> Def(0), braille_y_adjust |-> Def(0),
         left_margin |-> Def((8800 - gridWidth) \div 2),
         top_margin |-> Def((5100 - gridHeight) \div 2),
         indicator_recess_depth |-> U,
         indicator_shapes |-> ind, debug_triangle_only |-> dbg]

SettingsInputs ==
    {BareSettings(gc, gr, ind, dbg) :
        gc \in GridColumnInputs, gr \in GridRowInputs, ind \in {Def(0), Def(1)}, dbg \in BOOLEAN}
    \cup
    {StudioSettings(gc, gr, ind, dbg) :
        gc \in GridColumnInputs, gr \in GridRowInputs, ind \in {Def(0), Def(1)}, dbg \in BOOLEAN}

CylinderParamsInputs ==
    {[diameter_mm |-> U, height_mm |-> U, seam_offset_deg |-> U,
      polygonal_cutout_radius_mm |-> U],
     [diameter_mm |-> Def(3135), height_mm |-> Def(5100), seam_offset_deg |-> Def(355),
      polygonal_cutout_radius_mm |-> Def(1300)],
     [diameter_mm |-> Def(3135), height_mm |-> Def(5100), seam_offset_deg |-> Def(0),
      polygonal_cutout_radius_mm |-> Def(0)]}

NoPlate == [builder |-> "none", shape |-> "none", type |-> "none",
            availableColumns |-> 0, gridRows |-> 0,
            subtract |-> <<>>, dots |-> <<>>, union |-> <<>>,
            group |-> <<>>, dotCount |-> 0]

\* the studio's settings always hold numbers
StudioReady(s) == s.card_width # U /\ s.grid_columns # U /\ s.grid_rows # U

----------------------------------------------------------------------------
(* The builders as operations.  A behaviour is one generation request: the  *)
(* inputs of the request, then one call of a builder on them.               *)

BuildCardEmbossingPlate ==
    /\ plate = NoPlate
    /\ plate' = buildCardEmbossingPlate(translatedLines, settings)
    /\ UNCHANGED <<cell, settings, cylinderParams, translatedLines>>
    /\ UNCHANGED notPlateVars

BuildCylinderEmbossingPlate ==
    \E seed \in JitterSeeds :
        /\ plate = NoPlate
        /\ plate' = buildCylinderEmbossingPlate(translatedLines, settings, cylinderParams, seed)
        /\ UNCHANGED <<cell, settings, cylinderParams, translatedLines>>
        /\ UNCHANGED notPlateVars

BuildCardCounterPlate ==
    \E seed \in JitterSeeds :
        /\ plate = NoPlate
        /\ plate' = buildCardCounterPlate(settings, seed)
        /\ UNCHANGED <<cell, settings, cylinderParams, translatedLines>>
        /\ UNCHANGED notPlateVars

BuildCylinderCounterPlate ==
    \E seed \in JitterSeeds :
        /\ plate = NoPlate
        /\ plate' = buildCylinderCounterPlate(settings, cylinderParams, seed)
        /\ UNCHANGED <<cell, settings, cylinderParams, translatedLines>>
        /\ UNCHANGED notPlateVars

CreateEmbossingPlate ==
    /\ plate = NoPlate
    /\ StudioReady(settings)
    /\ plate' = createEmbossingPlate(settings, translatedLines)
    /\ UNCHANGED <<cell, settings, cylinderParams, translatedLines>>
    /\ UNCHANGED notPlateVars

----------------------------------------------------------------------------
(* The compositor: balancedUnion over the subtract brushes and the         *)
(* subtraction from the base, with an evaluator whose calls may return     *)
(* null.  A brush is a tree over the positions 1..n of the brushes; the    *)
(* base is leaf 0.  The calls of evaluator.evaluate are numbered in the    *)
(* order the code makes them.                                              *)

NullBrush == [null |-> TRUE]

\* a TypeError thrown out of the builder
Thrown == [threw |-> TRUE]

BaseBrush == [leaf |-> 0]

\* evaluator.evaluate(a, b, op), the callNo-th call.  A call on a null
\* operand either throws a TypeError or returns null.
evaluate(a, b, op, callNo, failed, nullThrows) ==
    IF a = Thrown \/ b = Thrown THEN Thrown
    ELSE IF a = NullBrush \/ b = NullBrush
         THEN (IF nullThrows THEN Thrown ELSE NullBrush)
    ELSE IF callNo \in failed THEN NullBrush
    ELSE [op |-> op, a |-> a, b |-> b]

RECURSIVE ReduceLevelsEvalDropOdd(_, _, _, _)
ReduceLevelsEvalDropOdd(level, calls, failed, nullThrows) ==
    IF Len(level) <= 1 THEN level
    ELSE LET pairs == Len(level) \div 2
             next == [k \in 1..pairs |->
                        evaluate(level[2 * k - 1], level[2 * k], "ADDITION",
                                 calls + k, failed, nullThrows)]
         IN  IF \E k \in 1..Len(next) : next[k] = Thrown
             THEN <<Thrown>>
             ELSE ReduceLevelsEvalDropOdd(next, calls + pairs, failed, nullThrows)

\* while (level.length > 1): unite the brushes two by two, united pushed
\* whether null or not, an odd last brush carried over
RECURSIVE ReduceLevelsEval(_, _, _, _)
ReduceLevelsEval(level, calls, failed, nullThrows) ==
    IF Len(level) <= 1 THEN level
    ELSE LET pairs == Len(level) \div 2
             next == [k \in 1..((Len(level) + 1) \div 2) |->
                        IF 2 * k <= Len(level)
                        THEN evaluate(level[2 * k - 1], level[2 * k], "ADDITION",
                                      calls + k, failed, nullThrows)
                        ELSE level[2 * k - 1]]
         IN  IF \E k \in 1..Len(next) : next[k] = Thrown
             THEN <<Thrown>>
             ELSE ReduceLevelsEval(next, calls + pairs, failed, nullThrows)

\* balancedUnion(evaluator, brushes) over n brushes
balancedUnionEval(n, failed, nullThrows) ==
    IF n = 0 THEN NullBrush
    ELSE ReduceLevelsEval([k \in 1..n |-> [leaf |-> k]], 0, failed, nullThrows)[1]

\* the working lists of balancedUnion, round by round: level before the
\* first round, then level = next after each; a throw ends them
RECURSIVE balancedUnionLevels(_, _, _, _)
balancedUnionLevels(level, calls, failed, nullThrows) ==
    IF Len(level) <= 1 THEN <<level>>
    ELSE LET pairs == Len(level) \div 2
             next == [k \in 1..((Len(level) + 1) \div 2) |->
                        IF 2 * k <= Len(level)
                        THEN evaluate(level[2 * k - 1], level[2 * k], "ADDITION",
                                      calls + k, failed, nullThrows)
                        ELSE level[2 * k - 1]]
         IN  IF \E k \in 1..Len(next) : next[k] = Thrown
             THEN <<level, <<Thrown>>>>
             ELSE <<level>> \o balancedUnionLevels(next, calls + pairs, failed, nullThrows)

\* result = subtractBrush ? evaluator.evaluate(baseBrush, subtractBrush,
\* SUBTRACTION) : baseBrush; result.updateMatrixWorld(true); group.add(result)
Subtracted(subtractBrush, callNo, failed, nullThrows) ==
    LET result == IF subtractBrush = Thrown THEN Thrown
                  ELSE IF subtractBrush # NullBrush
                       THEN evaluate(BaseBrush, subtractBrush, "SUBTRACTION",
                                     callNo, failed, nullThrows)
                       ELSE BaseBrush
    IN  IF result = Thrown \/ result = NullBrush
        THEN [status |-> "threw", subtractBrush |-> subtractBrush, result |-> NullBrush]
        ELSE [status |-> "done", subtractBrush |-> subtractBrush, result |-> result]

\* what a builder's composition left: the outcome, and the working lists
\* of its call of balancedUnion (none without a call, or on an empty list)
WithLevels(c, levels) ==
    [status |-> c.status, subtractBrush |-> c.subtractBrush, result |-> c.result,
     levels |-> levels]

\* the number of calls balancedUnion makes on n brushes
UnionCalls(n) == IF n = 0 THEN 0 ELSE n - 1

\* buildCylinderEmbossingPlate: the subtract brushes always go through
\* balancedUnion
composeEmboss(n, failed, nullThrows) ==
    WithLevels(Subtracted(balancedUnionEval(n, failed, nullThrows), UnionCalls(n) + 1,
                          failed, nullThrows),
               IF n = 0 THEN <<>>
               ELSE balancedUnionLevels([k \in 1..n |-> [leaf |-> k]], 0, failed, nullThrows))

\* buildCardCounterPlate, buildCylinderCounterPlate: a single brush skips
\* the union
composeCounter(n, failed, nullThrows) ==
    IF n = 1
    THEN WithLevels(Subtracted([leaf |-> 1], 1, failed, nullThrows), <<>>)
    ELSE WithLevels(Subtracted(balancedUnionEval(n, failed, nullThrows), UnionCalls(n) + 1,
                               failed, nullThrows),
                    IF n = 0 THEN <<>>
                    ELSE balancedUnionLevels([k \in 1..n |-> [leaf |-> k]], 0, failed,
                                             nullThrows))

\* the older builder: unionBrush = unionBrush ? evaluate(unionBrush, brush,
\* ADDITION) : brush, for each brush in turn
RECURSIVE LeftFoldUnion(_)
LeftFoldUnion(n) ==
    IF n = 0 THEN NullBrush
    ELSE IF n = 1 THEN [leaf |-> 1]
    ELSE [op |-> "ADDITION", a |-> LeftFoldUnion(n - 1), b |-> [leaf |-> n]]

NoComposite == [status |-> "idle", subtractBrush |-> NullBrush, result |-> NullBrush,
                levels |-> <<>>]

IdleUnion == brushCount = 0 /\ failing = {} /\ composite = NoComposite

ComposeEmboss ==
    \E nullThrows \in BOOLEAN :
        /\ composite = NoComposite
        /\ composite' = composeEmboss(brushCount, failing, nullThrows)
        /\ UNCHANGED <<brushCount, failing>>
        /\ UNCHANGED notUnionVars

ComposeCounter ==
    \E nullThrows \in BOOLEAN :
        /\ composite = NoComposite
        /\ composite' = composeCounter(brushCount, failing, nullThrows)
        /\ UNCHANGED <<brushCount, failing>>
        /\ UNCHANGED notUnionVars

----------------------------------------------------------------------------
(* Meshes and the STL exporter.  A geometry is its list of triangles, a     *)
(* triangle three vertex positions.  A position is named, not measured:     *)
(* <<"ring", k, l>> is the point of the circle of the post's radius at      *)
(* angle k * PI / n (n the radial segments) and at z = 0 (l = 0) or         *)
(* z = cylinderHeight (l = 1); <<"axis", 0, l>> the point of the axis       *)
(* there; <<"dome", ix, iy>> a vertex of the sphere above the post; two     *)
(* vertices have the same position exactly when they have the same name.    *)

\* Math.round(circumference / targetResolution), circumference = PI * diameter,
\* targetResolution = 0.15, clamped to 12..32; PI taken as 3.1416
DotRadialSegments(cylinderDiameter) ==
    Max(12, Min(32, (2 * 31416 * cylinderDiameter + 150000) \div 300000))

\* new THREE.CylinderGeometry(r, r, cylinderHeight, n, 1, false), rotated
\* about X and shifted so that its base is at z = 0: the torso, then the top
\* and the bottom cap.  top is the level of the upper ring.
CylinderGeometry(n, top) ==
    LET R(x, l) == <<"ring", (2 * x) % (2 * n), l>>
    IN  [k \in 1..(2 * n) |->
            LET x == (k - 1) \div 2
            IN  IF (k - 1) % 2 = 0
                THEN <<R(x, top), R(x, 0), R(x + 1, top)>>
                ELSE <<R(x, 0), R(x + 1, 0), R(x + 1, top)>>]
        \o [x \in 1..n |-> <<R(x - 1, top), R(x, top), <<"axis", 0, top>>>>]
        \o [x \in 1..n |-> <<R(x, 0), R(x - 1, 0), <<"axis", 0, 0>>>>]

\* the vertex (ix, iy) of new THREE.SphereGeometry(r, n, n):
\* x = -r cos(2 PI ix / n) sin(PI iy / n), y = r cos(PI iy / n),
\* z = r sin(2 PI ix / n) sin(PI iy / n).  The poles and the meridians
\* ix = 0 and 2 ix = n lie in the plane z = 0, on the circle of radius r.
SphereVertex(ix, iy, n, top) ==
    IF iy = 0 THEN <<"ring", n, top>>
    ELSE IF iy = n THEN <<"ring", 0, top>>
    ELSE IF ix = 0 \/ ix = n THEN <<"ring", (n + iy) % (2 * n), top>>
    ELSE IF 2 * ix = n THEN <<"ring", n - iy, top>>
    ELSE <<"dome", ix, iy>>

\* if (z >= 0): the vertices of the half sphere sin(2 PI ix / n) >= 0, and
\* the first row, whose z is 0 whatever ix
SphereVertexKept(ix, iy, n) == 2 * ix <= n \/ iy = 0

\* the triangles of the sphere whose three vertices were kept, re-indexed
DomeGeometry(n, top) ==
    LET cand == [k \in 1..(2 * n * n) |->
                    LET quad == (k - 1) \div 2
                        ix == quad % n
                        iy == quad \div n
                        first == (k - 1) % 2 = 0
                        \* a = grid[iy][ix + 1], b = grid[iy][ix],
                        \* c = grid[iy + 1][ix], d = grid[iy + 1][ix + 1]
                        pushed == IF first THEN iy # 0 ELSE iy # n - 1
                        kept == /\ SphereVertexKept(ix, iy + 1, n)
                                /\ SphereVertexKept(ix + 1, iy + 1, n)
                                /\ SphereVertexKept(ix, iy, n)
                                /\ (first => SphereVertexKept(ix + 1, iy, n))
                    IN  [on |-> IF pushed /\ kept THEN 1 ELSE 0,
                         f |-> IF first
                               THEN <<SphereVertex(ix + 1, iy, n, top),
                                      SphereVertex(ix, iy, n, top),
                                      SphereVertex(ix + 1, iy + 1, n, top)>>
                               ELSE <<SphereVertex(ix, iy, n, top),
                                      SphereVertex(ix, iy + 1, n, top),
                                      SphereVertex(ix + 1, iy + 1, n, top)>>]]
    IN  Stripped(SelectSeq(cand, IsOn))

\* the post (a capped cylinder) and the dome (the half sphere), their
\* positions and indices concatenated into one geometry
createDotGeometry(ds) ==
    LET cylinderDiameter == toNumber(JsOr(ds.emboss_dot_cylinder_diameter,
                                          ds.emboss_dot_base_diameter), 150)
        cylinderHeight == toNumber(JsOr(ds.emboss_dot_cylinder_height,
                                        ds.emboss_dot_height), 10)
        radialSegments == DotRadialSegments(cylinderDiameter)
        top == IF cylinderHeight = 0 THEN 0 ELSE 1
    IN  CylinderGeometry(radialSegments, top) \o DomeGeometry(radialSegments, top)

\* new THREE.BoxGeometry(w, h, t, 1, 1, 1): two triangles on each of the six
\* faces of the box; corner 4 * i + 2 * j + k is at (+-w/2, +-h/2, +-t/2)
createBasePlateGeometry ==
    LET C(i) == <<"box", i, 0>>
        Face(a, b, c, d) == <<<<C(a), C(b), C(d)>>, <<C(b), C(c), C(d)>>>>
    IN  Face(0, 1, 3, 2) \o Face(4, 6, 7, 5) \o Face(0, 4, 5, 1)
        \o Face(2, 3, 7, 6) \o Face(0, 2, 6, 4) \o Face(1, 5, 7, 3)

\* a child of the exported object: a mesh with its geometry, or another
\* kind of object; at: where the mesh stands (its matrixWorld)
Mesh(geometry, at) == [isMesh |-> TRUE, geometry |-> <<geometry>>, at |-> at]

GroupNode == [isMesh |-> FALSE, geometry |-> <<>>, at |-> 0]

\* cb.subVectors(c, b); ab.subVectors(a, b); cb.cross(ab).normalize(): the
\* zero vector when the triangle has no area, a unit vector otherwise
FacetNormal(tri) ==
    IF tri[1] = tri[2] \/ tri[2] = tri[3] \/ tri[1] = tri[3] THEN "zero" ELSE "unit"

\* the facets written for one object of the traversal
ExportedFacets(obj, index) ==
    IF ~obj.isMesh THEN <<>>
    ELSE IF obj.geometry = <<>> THEN <<>>
    ELSE LET position == obj.geometry[1]
         IN  [i \in 1..Len(position) |->
                [mesh |-> index, normal |-> FacetNormal(position[i]),
                 a |-> <<obj.at, position[i][1]>>,
                 b |-> <<obj.at, position[i][2]>>,
                 c |-> <<obj.at, position[i][3]>>]]

\* object3D.traverse: every mesh with a geometry, every triangle of it
exportObjectToAsciiSTL(object) ==
    Flatten([i \in 1..Len(object) |-> ExportedFacets(object[i], i)])

\* settings of the raised dot: the default diameter (31 segments), 0.5 mm
\* (12), 0.62 mm (13) and 1 mm (21), each with the default height, no
\* height, or 1 mm
DotSettingsInputs ==
    {[emboss_dot_cylinder_diameter |-> U, emboss_dot_base_diameter |-> d,
      emboss_dot_cylinder_height |-> U, emboss_dot_height |-> h] :
        d \in {U, Def(50), Def(62), Def(100)}, h \in {U, Def(0), Def(100)}}

\* the groups the embossing builders return: the group, the base, the dot
\* meshes (all of one geometry, each at its place); and groups that also
\* hold a mesh without geometry or with an empty one
ObjectInputs ==
    {<<GroupNode, Mesh(createBasePlateGeometry, 0)>>
        \o [k \in 1..dots |-> Mesh(createDotGeometry(ds), k)] \o extra :
        dots \in 0..MaxDots, ds \in DotSettingsInputs,
        extra \in {<<>>, <<[isMesh |-> TRUE, geometry |-> <<>>, at |-> 0]>>,
                   <<Mesh(<<>>, 0)>>}}

NotExported == [done |-> FALSE, facets |-> <<>>]

ExportObjectToAsciiSTL ==
    /\ ~stl.done
    /\ stl' = [done |-> TRUE, facets |-> exportObjectToAsciiSTL(object3D)]
    /\ UNCHANGED object3D
    /\ UNCHANGED notStlVars

----------------------------------------------------------------------------
(* Braille translation through the liblouis worker.  requests[id] is the    *)
(* promise callWorker made for correlation id: every call of its resolve    *)
(* is recorded in settled, in order.  translateCalls[k] is the k-th call of *)
(* translateText with what it rendered.  A promise's continuation runs      *)
(* right after the handler that resolved it, before any other message or    *)
(* timer, so it is part of that handler's action.                           *)

\* the inputs of the text field with the grade chosen
Texts == {"a", "b"}

\* doRender(text): the input text passed through
Identity(text) == [kind |-> "identity", of |-> text]

\* liblouisInstance.translateString(tableFormat, text), in Unicode braille
Liblouis(text) == [kind |-> "translation", of |-> text]

\* translateString's output without a character of U+2800..U+28FF
LiblouisAscii(text) == [kind |-> "ascii", of |-> text]

\* result.split('').some(char => code >= 0x2800 && code <= 0x28FF)
hasBrailleChars(result) == result.kind = "translation"

\* { success: false, error: ... }
Failure(error) == [success |-> FALSE, error |-> error, translation |-> Identity("")]

\* { success: true, ... }: of initializeLiblouis, or with the translation
Success(translation) == [success |-> TRUE, error |-> "", translation |-> translation]

\* new Promise((resolve) => { ... setTimeout(..., 8000) })
NewRequest(id, type, text, callNo) ==
    [id |-> id, type |-> type, text |-> text, call |-> callNo,
     settled |-> <<>>, timer |-> "armed"]

\* doRender(joined) of the callNo-th translateText: this.brailleTranslations
Rendered(callNo, joined) == [call |-> callNo, lines |-> joined]

\* translateText(), with w and ready what the handler has made of worker and
\* workerReady, pend and reqs of pendingMessages and requests
translateText(text, w, ready, pend, reqs) ==
    LET sending == w # "none" /\ ready
    IN  /\ translateCalls' =
            Append(translateCalls,
                   [text |-> text,
                    id |-> IF sending THEN messageSeq ELSE 0,
                    rendered |-> IF sending THEN <<>> ELSE <<Identity(text)>>])
        /\ IF sending
           THEN /\ messageSeq' = messageSeq + 1
                /\ pendingMessages' = pend \cup {messageSeq}
                /\ requests' = Append(reqs, NewRequest(messageSeq, "translate", text,
                                                       Len(translateCalls) + 1))
                /\ toWorker' = Append(toWorker,
                       [id |-> messageSeq, type |-> "translate", text |-> text])
                /\ storedTranslations' = storedTranslations
           ELSE /\ messageSeq' = messageSeq
                /\ pendingMessages' = pend
                /\ requests' = reqs
                /\ toWorker' = toWorker
                /\ storedTranslations' =
                       Rendered(Len(translateCalls) + 1, Identity(text))

\* resolve(res) of request id, and the continuation its first call starts:
\* of 'init', workerReady = !!(res && res.success) and translateText(); of
\* 'translate', doRender(res.translation) or doRender(text)
Settle(id, by, res, pend, reqs) ==
    LET reqs1 == [reqs EXCEPT ![id].settled = Append(@, [by |-> by, res |-> res])]
        joined == IF res.success THEN res.translation
                  ELSE Identity(requests[id].text)
    IN  IF requests[id].settled # <<>>
        THEN /\ requests' = reqs1
             /\ pendingMessages' = pend
             /\ UNCHANGED <<workerReady, messageSeq, toWorker, translateCalls,
                            storedTranslations>>
        ELSE IF requests[id].type = "init"
        THEN /\ workerReady' = res.success
             /\ \E text \in Texts : translateText(text, worker, res.success, pend, reqs1)
        ELSE /\ translateCalls' =
                    [translateCalls EXCEPT ![requests[id].call].rendered =
                        Append(@, joined)]
             /\ storedTranslations' = Rendered(requests[id].call, joined)
             /\ requests' = reqs1
             /\ pendingMessages' = pend
             /\ UNCHANGED <<workerReady, messageSeq, toWorker>>

\* init() has run setupBrailleTranslation
SetupDone == requests # <<>> \/ translateCalls # <<>>

\* new Worker(...) throws: no worker, and translateText() falls back; or the
\* worker is made (its script loads, or throws while importing liblouis and
\* never installs its handler) and callWorker('init', {}) is sent
setupBrailleTranslation ==
    /\ ~SetupDone
    /\ \/ /\ worker' = "none"
          /\ workerReady' = FALSE
          /\ \E text \in Texts : translateText(text, "none", FALSE, pendingMessages, requests)
       \/ /\ worker' \in {"set", "dead"}
          /\ messageSeq' = messageSeq + 1
          /\ pendingMessages' = pendingMessages \cup {messageSeq}
          /\ requests' = Append(requests, NewRequest(messageSeq, "init", "", 0))
          /\ toWorker' = Append(toWorker, [id |-> messageSeq, type |-> "init", text |-> ""])
          /\ UNCHANGED <<workerReady, translateCalls, storedTranslations>>
    /\ UNCHANGED <<liblouisReady, toMain, initializing>>
    /\ UNCHANGED notWorkerVars

\* the 'input' event of the text field (or a change of grade)
TranslateText(text) ==
    /\ SetupDone
    /\ Len(translateCalls) < MaxCalls
    /\ worker' = worker
    /\ translateText(text, worker, workerReady, pendingMessages, requests)
    /\ UNCHANGED <<workerReady, liblouisReady, toMain, initializing>>
    /\ UNCHANGED notWorkerVars

\* what translateString can do with a text: throw, or return its output with
\* or without braille characters
TranslateStringOutcomes(text) == {<<>>, <<LiblouisAscii(text)>>, <<Liblouis(text)>>}

\* initializeLiblouis(): its result, with created whether the instance was
\* made and its tables set up
initializeLiblouis(created) ==
    IF created THEN Success(Identity("")) ELSE Failure("init")

onmessageUnchecked(m, ready, out) ==
    IF m.type = "translate"
    THEN IF ~ready \/ out = <<>>
         THEN <<[id |-> m.id, result |-> Failure("translate")]>>
         ELSE <<[id |-> m.id, result |-> Success(out[1])]>>
    ELSE <<[id |-> m.id, result |-> Failure("unknown type")]>>

\* self.onmessage of a message that is not 'init': the responses it posts,
\* with ready the value of liblouisReady and out what translateString did
onmessage(m, ready, out) ==
    IF m.type = "translate"
    THEN IF ~ready \/ out = <<>> \/ ~hasBrailleChars(out[1])
         THEN <<[id |-> m.id, result |-> Failure("translate")]>>
         ELSE <<[id |-> m.id, result |-> Success(out[1])]>>
    ELSE <<[id |-> m.id, result |-> Failure("unknown type")]>>

\* self.onmessage of the worker: of 'init', up to the wait in
\* initializeLiblouis; of any other message, to its end
WorkerOnMessage(m) ==
    /\ worker = "set"
    /\ toWorker # <<>> /\ m = Head(toWorker)
    /\ toWorker' = Tail(toWorker)
    /\ IF m.type = "init"
       THEN /\ initializing' = Append(initializing, m)
            /\ toMain' = toMain
       ELSE /\ \E out \in TranslateStringOutcomes(m.text) :
                  toMain' = toMain \o onmessage(m, liblouisReady, out)
            /\ initializing' = initializing
    /\ UNCHANGED <<worker, workerReady, liblouisReady, pendingMessages, messageSeq,
                   requests, translateCalls, storedTranslations>>
    /\ UNCHANGED notWorkerVars

\* the rest of self.onmessage of 'init', after the wait: liblouisReady is set
\* when the instance was made, and the result is posted
WorkerInitDone ==
    /\ initializing # <<>>
    /\ initializing' = Tail(initializing)
    /\ \E created \in BOOLEAN :
          /\ liblouisReady' = (liblouisReady \/ created)
          /\ toMain' = Append(toMain, [id |-> Head(initializing).id,
                                       result |-> initializeLiblouis(created)])
    /\ UNCHANGED <<worker, workerReady, pendingMessages, messageSeq, requests,
                   toWorker, translateCalls, storedTranslations>>
    /\ UNCHANGED notWorkerVars

\* the worker whose script threw has no handler: the message is lost
WorkerSilent(m) ==
    /\ worker = "dead"
    /\ toWorker # <<>> /\ m = Head(toWorker)
    /\ toWorker' = Tail(toWorker)
    /\ UNCHANGED <<worker, workerReady, liblouisReady, pendingMessages,
                   messageSeq, requests, toMain, translateCalls,
                   storedTranslations, initializing>>
    /\ UNCHANGED notWorkerVars

\* the messages in a channel that carry no id the studio gave out
Foreign(q) == {k \in 1..Len(q) : q[k].id <= 0}

\* a message to the worker that the studio does not send: of an unknown
\* type, or a 'translate' whenever
ForeignMessage(type) ==
    /\ worker = "set"
    /\ Cardinality(Foreign(toWorker)) + Cardinality(Foreign(toMain)) < MaxForeign
    /\ toWorker' = Append(toWorker, [id |-> 0, type |-> type, text |-> "a"])
    /\ UNCHANGED <<worker, workerReady, liblouisReady, pendingMessages,
                   messageSeq, requests, toMain, translateCalls,
                   storedTranslations, initializing>>
    /\ UNCHANGED notWorkerVars

\* a message event without an id, or with an id never given out
StrayMessage ==
    /\ worker # "none"
    /\ Cardinality(Foreign(toWorker)) + Cardinality(Foreign(toMain)) < MaxForeign
    /\ \E id \in {0, -1} :
          toMain' = Append(toMain, [id |-> id, result |-> Failure("stray")])
    /\ UNCHANGED <<worker, workerReady, liblouisReady, pendingMessages,
                   messageSeq, requests, toWorker, translateCalls,
                   storedTranslations, initializing>>
    /\ UNCHANGED notWorkerVars

\* if (!id) return; const resolver = this.pendingMessages.get(id);
OnMessageResolver(pend, id) == id # 0 /\ id \in pend

PendingAfterMessageKept(pend, id) == pend

\* if (resolver) { this.pendingMessages.delete(id); ... }
PendingAfterMessage(pend, id) ==
    IF OnMessageResolver(pend, id) THEN pend \ {id} ELSE pend

\* this.worker.onmessage, of the message posted first
OnMessage(r) ==
    /\ toMain # <<>> /\ r = Head(toMain)
    /\ toMain' = Tail(toMain)
    /\ IF OnMessageResolver(pendingMessages, r.id)
       THEN Settle(r.id, "response", r.result,
                   PendingAfterMessage(pendingMessages, r.id), requests)
       ELSE UNCHANGED <<workerReady, pendingMessages, messageSeq, requests,
                        toWorker, translateCalls, storedTranslations>>
    /\ UNCHANGED <<worker, liblouisReady, initializing>>
    /\ UNCHANGED notWorkerVars

TimeoutResultNone(pend, id) == <<>>

\* if (this.pendingMessages.has(id)) { ...; resolve({ success: false, error: 'timeout' }); }
TimeoutResult(pend, id) ==
    IF id \in pend THEN <<Failure("timeout")>> ELSE <<>>

DueTimersAnyOrder(reqs) == {id \in 1..Len(reqs) : reqs[id].timer = "armed"}

\* the timers of setTimeout(..., 8000) whose callback runs next: timers of
\* one delay run in the order they were set
DueTimers(reqs) ==
    {id \in 1..Len(reqs) : /\ reqs[id].timer = "armed"
                           /\ \A k \in 1..(id - 1) : reqs[k].timer = "fired"}

\* the callback of setTimeout(..., 8000) of request id
Timeout(id) ==
    /\ id \in DueTimers(requests)
    /\ LET fired == [requests EXCEPT ![id].timer = "fired"]
           res == TimeoutResult(pendingMessages, id)
       IN  IF res # <<>>
           THEN Settle(id, "timeout", res[1], pendingMessages \ {id}, fired)
           ELSE /\ requests' = fired
                /\ UNCHANGED <<workerReady, pendingMessages, messageSeq,
                               toWorker, translateCalls, storedTranslations>>
    /\ UNCHANGED <<worker, liblouisReady, toMain, initializing>>
    /\ UNCHANGED notWorkerVars

----------------------------------------------------------------------------
(* The studio session: Generate, the plate and shape buttons, Download.     *)
(* jobs[j] is the generation the j-th click on Generate started: scheduled  *)
(* (its 50 ms timer has not fired), fetching (built; its server request is  *)
(* out), done or failed.  A mesh is named by the job that made it.          *)

\* the geometry of createEmbossingPlate, createCounterPlate,
\* createCylinderEmbossing or createCylinderCounter: its dot features; only
\* the card emboss plate has any, the others are the bare base
StudioGeometryDots(shape, plateType, s, brailleTranslations) ==
    IF shape = "card" /\ plateType = "emboss"
    THEN createEmbossingPlate(s, brailleTranslations).dotCount
    ELSE 0

\* THREE.BufferGeometryUtils.mergeBufferGeometries(dots) without the utils
StudioBuildThrows(shape, plateType, s, brailleTranslations, loaded) ==
    /\ shape = "card" /\ plateType = "emboss"
    /\ createEmbossingPlate(s, brailleTranslations).dotCount > 0
    /\ ~loaded

\* this.dotCount after the build: only createEmbossingPlate assigns it
DotCountAfter(shape, plateType, built, before) ==
    IF shape = "card" /\ plateType = "emboss" THEN <<built>> ELSE before

\* `Braille Dots: ${this.dotCount || 0}`
StatsDots(count) == IF count = <<>> THEN 0 ELSE count[1]

\* the jobs that are scheduled or running, the server request included
InFlight == {j \in 1..Len(jobs) : jobs[j].state \in {"scheduled", "fetching"}}

Scheduled == {j \in 1..Len(jobs) : jobs[j].state = "scheduled"}

\* the click handlers of the shape buttons and of the plate buttons
SelectShape(shape) ==
    /\ currentShape # shape
    /\ currentShape' = shape
    /\ UNCHANGED <<currentPlate, currentMesh, scene, dotCount, statsDots,
                   serverStlBlob, jobs, saved, status, apiBaseUrl, utilsLoaded>>
    /\ UNCHANGED notStudioVars

SelectPlate(plateType) ==
    /\ currentPlate # plateType
    /\ currentPlate' = plateType
    /\ UNCHANGED <<currentShape, currentMesh, scene, dotCount, statsDots,
                   serverStlBlob, jobs, saved, status, apiBaseUrl, utilsLoaded>>
    /\ UNCHANGED notStudioVars

\* generateModel up to setTimeout: the current mesh leaves the scene and a
\* generation is scheduled
GenerateModel ==
    /\ Len(jobs) < MaxClicks
    /\ scene' = IF currentMesh # <<>> THEN scene \ {currentMesh[1]} ELSE scene
    /\ currentMesh' = <<>>
    /\ jobs' = Append(jobs, [state |-> "scheduled", endpoint |-> "none"])
    /\ UNCHANGED <<currentShape, currentPlate, dotCount, statsDots,
                   serverStlBlob, saved, status, apiBaseUrl, utilsLoaded>>
    /\ UNCHANGED notStudioVars

\* the callback of setTimeout(..., 50) of job j, the timers firing in the
\* order they were set: the build, the new mesh, the statistics, and
\* tryServerGeneration up to its fetch
RunGeneration(j) ==
    /\ j \in Scheduled
    /\ \A i \in Scheduled : j <= i
    /\ IF StudioBuildThrows(currentShape, currentPlate, settings, translatedLines,
                            utilsLoaded)
       THEN /\ status' = "error"
            /\ jobs' = [jobs EXCEPT ![j].state = "failed"]
            /\ UNCHANGED <<currentMesh, scene, dotCount, statsDots, serverStlBlob>>
       ELSE LET built == StudioGeometryDots(currentShape, currentPlate, settings,
                                            translatedLines)
                mesh == [job |-> j, shape |-> currentShape, plate |-> currentPlate,
                         dots |-> built]
                fetches == apiBaseUrl /\ currentShape = "card"
            IN  /\ currentMesh' = <<mesh>>
                /\ scene' = scene \cup {mesh}
                /\ dotCount' = DotCountAfter(currentShape, currentPlate, built, dotCount)
                /\ statsDots' = <<StatsDots(dotCount')>>
                /\ serverStlBlob' = <<>>
                /\ jobs' = [jobs EXCEPT ![j] =
                               IF fetches
                               THEN [state |-> "fetching", endpoint |-> currentPlate]
                               ELSE [state |-> "done", endpoint |-> "none"]]
                /\ status' = IF fetches THEN status ELSE "success"
    /\ UNCHANGED <<currentShape, currentPlate, saved, apiBaseUrl, utilsLoaded>>
    /\ UNCHANGED notStudioVars

\* the fetch of job j settles: if (resp.ok) this.serverStlBlob = ...; then
\* hideLoading and the success message
ServerResponds(j, ok) ==
    /\ j \in 1..Len(jobs)
    /\ jobs[j].state = "fetching"
    /\ serverStlBlob' = IF ok THEN <<[source |-> "server", job |-> j,
                                      plate |-> jobs[j].endpoint]>>
                        ELSE serverStlBlob
    /\ jobs' = [jobs EXCEPT ![j].state = "done"]
    /\ status' = "success"
    /\ UNCHANGED <<currentShape, currentPlate, currentMesh, scene, dotCount,
                   statsDots, saved, apiBaseUrl, utilsLoaded>>
    /\ UNCHANGED notStudioVars

\* the file name downloadSTL builds, without the text of the first line
Filename(plateType, shape) ==
    <<"braille_",
      IF plateType = "emboss" THEN "embossing_plate_" ELSE "counter_plate",
      "_", shape, ".stl">>

\* what downloadSTL hands to saveAs: nothing without a current mesh, else
\* the server's file if there is one, else the export of the current mesh
downloadSTL(mesh, blob, plateType, shape) ==
    IF mesh = <<>> THEN <<>>
    ELSE <<[filename |-> Filename(plateType, shape),
            blob |-> IF blob # <<>> THEN blob[1]
                     ELSE [source |-> "export", job |-> mesh[1].job,
                           plate |-> mesh[1].plate]]>>

DownloadSTL ==
    LET file == downloadSTL(currentMesh, serverStlBlob, currentPlate, currentShape)
    IN  /\ saved' = IF file = <<>> THEN saved ELSE file
        /\ status' = IF file = <<>> THEN "error" ELSE "success"
        /\ UNCHANGED <<currentShape, currentPlate, currentMesh, scene, dotCount,
                       statsDots, serverStlBlob, jobs, apiBaseUrl, utilsLoaded>>
        /\ UNCHANGED notStudioVars

----------------------------------------------------------------------------
(* Specifications *)

\* plate builds over bounded settings, cylinder parameters and lines
Init ==
    /\ cell = NoCell
    /\ settings \in SettingsInputs
    /\ cylinderParams \in CylinderParamsInputs
    /\ translatedLines \in LineArrays
    /\ plate = NoPlate
    /\ IdleUnion
    /\ IdleStl
    /\ IdleWorker
    /\ IdleStudio

Next ==
    \/ BuildCardEmbossingPlate
    \/ BuildCylinderEmbossingPlate
    \/ BuildCardCounterPlate
    \/ BuildCylinderCounterPlate
    \/ CreateEmbossingPlate

Spec == Init /\ [][Next]_vars

\* cell decoding over bounded characters
InitDecode ==
    /\ cell = NoCell
    /\ settings = BareSettings(<<U, U>>, <<U, U>>, Def(1), FALSE)
    /\ cylinderParams \in {c \in CylinderParamsInputs : c.diameter_mm = U}
    /\ translatedLines = <<>>
    /\ plate = NoPlate
    /\ IdleUnion
    /\ IdleStl
    /\ IdleWorker
    /\ IdleStudio

NextDecode == DecodeStatic \/ DecodeStudio

SpecDecode == InitDecode /\ [][NextDecode]_vars

\* the compositor over bounded brush lists and failing evaluator calls
IdlePlate ==
    /\ cell = NoCell
    /\ settings = BareSettings(<<U, U>>, <<U, U>>, Def(1), FALSE)
    /\ cylinderParams = [diameter_mm |-> U, height_mm |-> U, seam_offset_deg |-> U,
                         polygonal_cutout_radius_mm |-> U]
    /\ translatedLines = <<>>
    /\ plate = NoPlate

InitUnion ==
    /\ IdlePlate
    /\ brushCount \in 0..MaxBrushes
    /\ failing \in {f \in SUBSET (1..MaxBrushes) : Cardinality(f) <= MaxFailures}
    /\ composite = NoComposite
    /\ IdleStl
    /\ IdleWorker
    /\ IdleStudio

NextUnion == ComposeEmboss \/ ComposeCounter

SpecUnion == InitUnion /\ [][NextUnion]_vars

----------------------------------------------------------------------------
(* Properties *)

Range(q) == {q[k] : k \in 1..Len(q)}

GeometryBuilders == {"buildCardEmbossingPlate", "buildCylinderEmbossingPlate",
                     "buildCardCounterPlate", "buildCylinderCounterPlate"}

Built == plate.builder # "none"

\* the number of features of a kind the plate carries for a row
CountOf(kind, row) ==
    Cardinality({k \in 1..Len(plate.subtract) :
                    plate.subtract[k].kind = kind /\ plate.subtract[k].row = row})

Indicators == {f \in Range(plate.subtract) : f.kind \in {"indicatorStart", "indicatorEnd"}}

Bores == {k \in 1..Len(plate.subtract) : plate.subtract[k].kind = "bore"}

\* the decoder a builder uses
DecoderOf(builder, ch) ==
    IF builder = "createEmbossingPlate" THEN brailleCharToDots(ch) ELSE brailleUnicodeToDots(ch)

\* C1: decoding the character U+2800 + bitmask(p) returns exactly p, for
\* every one of the 64 six-dot patterns p and for both decoders.
C1_DecodeInvertsEncode ==
    \A p \in Patterns :
        (cell.decoder # "none" /\ cell.ch = Encode(p)) => cell.dots = p

C1_Witness ==
    /\ cell.decoder = "static"
    /\ cell.ch = Encode([i \in 1..6 |-> IF i \in {1, 3, 6} THEN 1 ELSE 0])
    /\ cell.dots = [i \in 1..6 |-> IF i \in {1, 3, 6} THEN 1 ELSE 0]

\* C2: a character outside the braille range U+2800..U+28FF decodes to the
\* empty pattern, whichever decoder is used.
C2_OutOfRangeDecodesEmpty ==
    (cell.decoder # "none" /\ (cell.ch < BrailleBase \/ cell.ch > BrailleLast))
        => cell.dots = NoDots

\* C3: with indicators enabled (two reserved columns), the available columns
\* of a built plate are max(0, columns - 2) for every integer columns >= 0.
C3_AvailableColumnsClamped ==
    (/\ plate.builder \in GeometryBuilders
     /\ settings.grid_columns # U
     /\ Truthy(settings.indicator_shapes))
        => plate.availableColumns = Max(0, settings.grid_columns[1] - 2)

\* C4: every raised dot lies in one of the first availableColumns cells of
\* its row's line and stands for a raised bit of that cell; no dot has a
\* column index >= availableColumns.
C4_LinesTruncated ==
    \A f \in Range(plate.dots) :
        /\ f.col >= 0
        /\ f.col < plate.availableColumns
        /\ f.col < Len(LineAt(translatedLines, f.row))
        /\ DecoderOf(plate.builder, LineAt(translatedLines, f.row)[f.col + 1])[f.slot] = 1

C4_Witness ==
    /\ plate.builder \in {"buildCardEmbossingPlate", "buildCylinderEmbossingPlate"}
    /\ plate.availableColumns = 1
    /\ Len(LineAt(translatedLines, 0)) = 2
    /\ \E f \in Range(plate.dots) : f.row = 0 /\ f.col = 0

\* C5: with zero rows or zero available columns a built plate contains no
\* dot feature, raised or recessed.
C5_EmptyGridCarrierOnly ==
    (/\ plate.builder \in GeometryBuilders
     /\ \/ settings.grid_rows = Def(0)
        \/ (settings.grid_columns # U /\ Max(0, settings.grid_columns[1] - 2) = 0))
        => /\ plate.dots = <<>>
           /\ \A f \in Range(plate.subtract) : f.kind # "recess"

C8_ReservedFollowsToggle ==
    (Built /\ settings.grid_columns # U /\ settings.grid_columns[1] > 0)
        => /\ plate.availableColumns
                = Max(0, settings.grid_columns[1]
                            - (IF Truthy(settings.indicator_shapes) THEN 2 ELSE 0))
           /\ ~Truthy(settings.indicator_shapes) => Indicators = {}

\* C9 (as stated): a cylinder plate carries exactly one bore when the bore
\* radius is greater than 0 and none when it is 0.
C9_OneBore ==
    (Built /\ plate.shape = "cylinder")
        => Cardinality(Bores)
             = (IF toNumber(cylinderParams.polygonal_cutout_radius_mm, 0) > 0 THEN 1 ELSE 0)

\* C9 (amended): a cylinder plate carries exactly one bore, whatever the
\* number of rows, when the bore radius is greater than 0 and
\* debug_triangle_only is not set, and none otherwise.
C9_OneBoreAmended ==
    (Built /\ plate.shape = "cylinder")
        => Cardinality(Bores)
             = (IF /\ toNumber(cylinderParams.polygonal_cutout_radius_mm, 0) > 0
                   /\ ~settings.debug_triangle_only
                THEN 1 ELSE 0)

C9_Witness ==
    /\ plate.shape = "cylinder"
    /\ plate.gridRows >= 2
    /\ cylinderParams.polygonal_cutout_radius_mm = Def(1300)
    /\ ~settings.debug_triangle_only
    /\ Cardinality(Bores) = 1

\* the raised dots the emboss builder of the plate's shape places for the
\* request's lines, settings and cylinder parameters
EmbossDotsFor(shape) ==
    IF shape = "card"
    THEN Range(buildCardEmbossingPlate(translatedLines, settings).dots)
    ELSE Range(buildCylinderEmbossingPlate(translatedLines, settings, cylinderParams, 0).dots)

\* C10: every position at which the emboss plate places a raised dot is the
\* centre (same plate-space x and y, up to the sub-micron jitter) of a dot
\* recess of the counter plate built from the same settings.
C10_CounterMatchesEmboss ==
    (plate.builder \in GeometryBuilders /\ plate.type = "counter")
        => \A f \in EmbossDotsFor(plate.shape) :
              \E g \in Range(plate.subtract) :
                  g.kind = "recess" /\ g.u2 = f.u2 /\ g.v2 = f.v2

\* the STL exporter over the groups the embossing builders return
InitStl ==
    /\ IdlePlate
    /\ IdleUnion
    /\ object3D \in ObjectInputs
    /\ stl = NotExported
    /\ IdleWorker
    /\ IdleStudio

NextStl == ExportObjectToAsciiSTL

SpecStl == InitStl /\ [][NextStl]_vars

\* the studio's translation through the worker
InitWorker == IdlePlate /\ IdleUnion /\ IdleStl /\ IdleWorker /\ IdleStudio

NextWorker ==
    \/ setupBrailleTranslation
    \/ \E text \in Texts : TranslateText(text)
    \/ \E m \in Range(toWorker) : WorkerOnMessage(m)
    \/ WorkerInitDone
    \/ \E m \in Range(toWorker) : WorkerSilent(m)
    \/ \E type \in {"other", "translate"} : ForeignMessage(type)
    \/ StrayMessage
    \/ \E r \in Range(toMain) : OnMessage(r)
    \/ \E id \in 1..(MaxCalls + 1) : Timeout(id)

SpecWorker == InitWorker /\ [][NextWorker]_vars

\* every timer set by setTimeout fires, and a message posted to the page is
\* delivered
SpecWorkerFair ==
    /\ SpecWorker
    /\ \A id \in 1..(MaxCalls + 1) : WF_vars(Timeout(id))
    /\ WF_vars(\E r \in Range(toMain) : OnMessage(r))
    /\ WF_vars(WorkerInitDone)

\* a studio session over the studio's settings, a text with or without
\* raised dots, with or without a server and the geometry utilities
InitStudio ==
    /\ cell = NoCell
    /\ settings = StudioSettings(<<Def(4), U>>, <<Def(2), U>>, Def(1), FALSE)
    /\ cylinderParams = [diameter_mm |-> U, height_mm |-> U, seam_offset_deg |-> U,
                         polygonal_cutout_radius_mm |-> U]
    /\ translatedLines \in {<<>>, <<<<BrailleBase + 37>>>>}
    /\ plate = NoPlate
    /\ IdleUnion /\ IdleStl /\ IdleWorker
    /\ currentShape = "card" /\ currentPlate = "emboss"
    /\ currentMesh = <<>> /\ scene = {}
    /\ dotCount = <<>> /\ statsDots = <<>>
    /\ serverStlBlob = <<>> /\ jobs = <<>> /\ saved = <<>>
    /\ status = "none"
    /\ apiBaseUrl \in BOOLEAN
    /\ utilsLoaded \in BOOLEAN

NextStudio ==
    \/ \E shape \in {"card", "cylinder"} : SelectShape(shape)
    \/ \E plateType \in {"emboss", "counter"} : SelectPlate(plateType)
    \/ GenerateModel
    \/ \E j \in 1..MaxClicks : RunGeneration(j)
    \/ \E j \in 1..MaxClicks, ok \in BOOLEAN : ServerResponds(j, ok)
    \/ DownloadSTL

SpecStudio == InitStudio /\ [][NextStudio]_vars

\* the dots and dot recesses of a plate, with their positions
IsDotFeature(f) == f.kind \in {"dot", "recess"}

DotFeatures(p) == SelectSeq(p.dots \o p.subtract, IsDotFeature)

\* the same flat-plate builder run again on the request's inputs, its random
\* numbers drawn from seed
FlatRebuild(seed) ==
    IF plate.builder = "buildCardEmbossingPlate"
    THEN buildCardEmbossingPlate(translatedLines, settings)
    ELSE buildCardCounterPlate(settings, seed)

\* C11: a flat plate's dot positions are deterministic: whatever random
\* numbers a second run of the same builder on the same lines and settings
\* draws, it places every raised dot and every dot recess at the position
\* the first run did.
C11_FlatDotsDeterministic ==
    (plate.builder \in {"buildCardEmbossingPlate", "buildCardCounterPlate"})
        => \A seed \in JitterSeeds : DotFeatures(FlatRebuild(seed)) = DotFeatures(plate)

\* changes of the seam offset, in degrees
SeamShifts == {5, 90}

\* the same cylinder builder run again with the seam offset changed by d
CylinderRebuild(d, seed) ==
    LET cp == [cylinderParams EXCEPT !.seam_offset_deg = Def(SeamOffsetDeg(cylinderParams) + d)]
    IN  IF plate.builder = "buildCylinderEmbossingPlate"
        THEN buildCylinderEmbossingPlate(translatedLines, settings, cp, seed)
        ELSE buildCylinderCounterPlate(settings, cp, seed)

\* the angle of a placed feature: its arc length, its seam offset and the
\* random offsets of its position across the axis
AngleOf(f) == <<f.u2, f.seam, f.jit[1], f.jit[2]>>

\* the axial coordinate of a placed feature
AxialOf(f) == <<f.v2, f.jit[3]>>

AllFeatures(p) == p.subtract \o p.dots

\* C12: on a cylinder plate two features with equal plate-space X have the
\* same angle, and a build with the seam offset changed by d places every
\* feature (dots, dot recesses, indicators, bore) at its angle rotated by
\* exactly d and at the same axial coordinate.
C12_SeamRotatesEveryFeature ==
    (plate.builder \in {"buildCylinderEmbossingPlate", "buildCylinderCounterPlate"})
        => /\ \A f, g \in Range(AllFeatures(plate)) :
                 f.u2 = g.u2 => AngleOf(f) = AngleOf(g)
           /\ \A d \in SeamShifts, seed \in JitterSeeds :
                 LET p == AllFeatures(plate)
                     q == AllFeatures(CylinderRebuild(d, seed))
                 IN  /\ Len(q) = Len(p)
                     /\ \A k \in 1..Len(p) :
                           /\ AngleOf(q[k]) = AngleOf([p[k] EXCEPT !.seam = @ + d])
                           /\ AxialOf(q[k]) = AxialOf(p[k])

\* the doubled axial centreline of the row a feature belongs to
Centreline2(f) ==
    IF IsDotFeature(f)
    THEN f.v2 - 2 * RowOffset(DotRow(f.slot - 1), toNumber(settings.dot_spacing, 254))
    ELSE f.v2

\* C13: on a cylinder plate built with zero y-adjust, the dots, dot recesses
\* and indicators of row r all lie on the axial centreline
\* (rows - 1) * linePitch / 2 - r * linePitch from the midplane.
C13_CylinderRowsCentred ==
    (/\ plate.builder \in {"buildCylinderEmbossingPlate", "buildCylinderCounterPlate"}
     /\ toNumber(settings.braille_y_adjust, 0) = 0)
        => \A f \in Range(AllFeatures(plate)) :
              f.row >= 0
                => Centreline2(f)
                     = (plate.gridRows - 1) * toNumber(settings.line_spacing, 1000)
                       - 2 * f.row * toNumber(settings.line_spacing, 1000)

\* C14: every build hands the serializer exactly one mesh: the carrier with
\* every raised dot united into it and every recess, indicator and bore
\* subtracted from it.
C14_OneFinalSolid ==
    Built => Len(plate.group) = 1

\* the brushes a brush is made of, in order
RECURSIVE Contents(_)
Contents(t) ==
    IF "leaf" \in DOMAIN t THEN <<t.leaf>>
    ELSE IF "op" \in DOMAIN t THEN Contents(t.a) \o Contents(t.b)
    ELSE <<>>

\* C15: for every non-empty list of brushes on which no union fails, the
\* balanced pairwise reduction combines the same brushes in the same order
\* as the left fold evaluate(evaluate(evaluate(b1, b2), b3), ...).
C15_BalancedEqualsLeftFold ==
    (/\ composite.status # "idle"
     /\ brushCount >= 1
     /\ failing \cap (1..UnionCalls(brushCount)) = {})
        => Contents(composite.subtractBrush) = Contents(LeftFoldUnion(brushCount))

C15_Witness ==
    /\ composite.status = "done"
    /\ brushCount = 5
    /\ failing = {}
    /\ Contents(composite.subtractBrush) = <<1, 2, 3, 4, 5>>

\* what a reduction that replaces a failed union by its left operand keeps
RECURSIVE KeptLevels(_, _, _)
KeptLevels(level, calls, failed) ==
    IF Len(level) <= 1 THEN level
    ELSE KeptLevels([k \in 1..((Len(level) + 1) \div 2) |->
                        IF 2 * k <= Len(level) /\ (calls + k) \notin failed
                        THEN level[2 * k - 1] \o level[2 * k]
                        ELSE level[2 * k - 1]],
                    calls + (Len(level) \div 2), failed)

KeptBrushes(n, failed) ==
    IF n = 0 THEN <<>>
    ELSE KeptLevels([k \in 1..n |-> <<k>>], 0, failed)[1]

\* C16: when exactly one call of the evaluator returns null, the build still
\* completes and its result holds the carrier and every brush except the
\* right-hand operand of the failed call (the failed call is replaced by its
\* left-hand operand).
C16_FailedUnionKeepsLeft ==
    (/\ composite.status # "idle"
     /\ Cardinality(failing \cap (1..brushCount)) = 1)
        => /\ composite.status = "done"
           /\ Range(Contents(composite.result))
                = {0} \cup (IF (UnionCalls(brushCount) + 1) \in failing
                            THEN {}
                            ELSE Range(KeptBrushes(brushCount, failing)))

\* the triangles of the exported object, over all its meshes
AllTriangles ==
    Flatten([i \in 1..Len(object3D) |->
                IF object3D[i].isMesh /\ object3D[i].geometry # <<>>
                THEN object3D[i].geometry[1] ELSE <<>>])

IsProperTriangle(tri) == tri[1] # tri[2] /\ tri[2] # tri[3] /\ tri[1] # tri[3]

\* C17: the exporter skips zero-area triangles: it writes as many facets as
\* the meshes of the object have triangles with an area, and no facet with a
\* zero normal.
C17_DegenerateTrianglesSkipped ==
    stl.done
        => /\ Len(stl.facets) = Len(SelectSeq(AllTriangles, IsProperTriangle))
           /\ \A k \in 1..Len(stl.facets) : stl.facets[k].normal # "zero"

\* the edges of a facet
FacetEdges(f) == {{f.a, f.b}, {f.b, f.c}, {f.a, f.c}}

\* C18: every mesh written is closed: each edge of each of its facets
\* belongs to exactly two facets of the mesh.
C18_EmittedMeshesClosed ==
    stl.done
        => \A k \in 1..Len(stl.facets) :
              \A e \in FacetEdges(stl.facets[k]) :
                  Cardinality({j \in 1..Len(stl.facets) :
                                  /\ stl.facets[j].mesh = stl.facets[k].mesh
                                  /\ e \in FacetEdges(stl.facets[j])}) = 2

\* the requests whose promise has been resolved
Resolved == {i \in 1..Len(requests) : requests[i].settled # <<>>}

\* C19: every translateText call eventually renders, once: the worker's
\* translation of its text if a successful response resolved its request
\* (it arrived before the 8 s timer fired), and otherwise (no worker, worker
\* not ready, failure response, timeout) the text passed through.
RenderedAsClaimed(c) ==
    /\ Len(c.rendered) <= 1
    /\ c.rendered # <<>> =>
          c.rendered[1] =
              IF /\ c.id # 0
                 /\ c.id \in Resolved
                 /\ requests[c.id].settled[1].by = "response"
                 /\ requests[c.id].settled[1].res.success
              THEN Liblouis(c.text)
              ELSE Identity(c.text)

C19_TranslationNeverBlocks ==
    /\ [](\A k \in 1..Len(translateCalls) : RenderedAsClaimed(translateCalls[k]))
    /\ \A k \in 1..(MaxCalls + 1) :
          (Len(translateCalls) >= k)
              ~> (Len(translateCalls) >= k /\ translateCalls[k].rendered # <<>>)

\* one call rendered the worker's translation, another fell back to its
\* text after the timeout
C19_Witness ==
    /\ \E k \in 1..Len(translateCalls) :
          translateCalls[k].rendered = <<Liblouis(translateCalls[k].text)>>
    /\ \E k \in 1..Len(translateCalls) :
          /\ translateCalls[k].id \in Resolved
          /\ requests[translateCalls[k].id].settled[1].by = "timeout"
          /\ translateCalls[k].rendered = <<Identity(translateCalls[k].text)>>

\* C20: the correlation ids of the requests are distinct; a request's
\* promise is resolved at most once, and once when its timer has fired, by
\* the response with its id or by the timeout; a response that comes after
\* the timeout, or without a known id, resolves nothing; pendingMessages
\* holds no request that has been resolved.
C20_ResolvedExactlyOnce ==
    /\ \A i, j \in 1..Len(requests) : requests[i].id = requests[j].id => i = j
    /\ \A i \in 1..Len(requests) :
          /\ requests[i].id < messageSeq
          /\ Len(requests[i].settled) <= 1
          /\ requests[i].timer = "fired" => Len(requests[i].settled) = 1
          /\ \A k \in 1..Len(requests[i].settled) :
                /\ requests[i].settled[k].by = "timeout" => requests[i].timer = "fired"
                /\ requests[i].settled[k].res.error # "stray"
    /\ pendingMessages \cap Resolved = {}
    /\ \A i \in 1..Len(requests) : i \in pendingMessages \/ i \in Resolved

\* a request resolved by its timeout whose response came late and was
\* dropped, next to a request resolved by its response
C20_Witness ==
    /\ worker = "set"
    /\ toWorker = <<>>
    /\ toMain = <<>>
    /\ \E i \in Resolved : requests[i].settled[1].by = "timeout"
    /\ \E i \in Resolved : requests[i].settled[1].by = "response"

\* C21: at most one generation is in flight: of the generations started by
\* Generate, never more than one is scheduled or running (its server
\* request included).
C21_OneBuildInFlight == Cardinality(InFlight) <= 1

\* the generation that ran last
LastRun == {j \in 1..Len(jobs) :
               /\ jobs[j].state # "scheduled"
               /\ \A i \in 1..Len(jobs) : jobs[i].state # "scheduled" => i <= j}

\* C22: after a failed generation the failure is shown and Download delivers
\* no file, neither a partial mesh nor a file of an earlier generation.
C22_FailedGenerationOffersNoFile ==
    \A j \in LastRun :
        jobs[j].state = "failed"
            => /\ status = "error"
               /\ downloadSTL(currentMesh, serverStlBlob, currentPlate, currentShape) = <<>>

\* the plate type a file name stands for: the studio's names, or the
\* suffixes _braille.stl and _counter_plate.stl
NamedPlate(filename) ==
    IF \E k \in 1..Len(filename) : filename[k] \in {"embossing_plate_", "_braille"}
    THEN "emboss"
    ELSE IF \E k \in 1..Len(filename) : filename[k] \in {"counter_plate", "_counter_plate"}
    THEN "counter"
    ELSE "none"

\* C23: the name of a downloaded file stands for the plate type of the
\* model in the file.
C23_FilenameEncodesPlateType ==
    saved # <<>> => NamedPlate(saved[1].filename) = saved[1].blob.plate

\* C24: the dot count shown with a result is the number of dot features of
\* the model generated last.
C24_DotCountOfGeneratedModel ==
    currentMesh # <<>> => statsDots = <<currentMesh[1].dots>>

\* C30: the scene holds at most one generated mesh, and it is currentMesh.
C30_OneMeshInScene ==
    /\ Cardinality(scene) <= 1
    /\ \A m \in scene : currentMesh = <<m>>

\* ceil(log2 n) for n >= 1
RECURSIVE CeilLog2(_)
CeilLog2(n) == IF n <= 1 THEN 0 ELSE 1 + CeilLog2((n + 1) \div 2)

\* the calls of evaluator.evaluate made in the rounds that were completed
RECURSIVE UnionsIn(_)
UnionsIn(levels) ==
    IF Len(levels) <= 1 THEN 0
    ELSE (Len(levels[1]) \div 2) + UnionsIn(Tail(levels))

\* C25: balancedUnion returns null for an empty list; on n >= 1 brushes it
\* ends after exactly ceil(log2 n) rounds and n - 1 unions, each round
\* pairing the neighbours 2k, 2k+1 from the left, carrying an unpaired last
\* element over, and taking the list from length m to ceil(m / 2).
C25_BalancedUnionRounds ==
    composite.status # "idle" =>
        /\ brushCount = 0 => composite.levels = <<>> /\ composite.subtractBrush = NullBrush
        /\ composite.levels # <<>> =>
              LET levels == composite.levels
                  rounds == Len(levels) - 1
              IN  /\ levels[Len(levels)] # <<Thrown>>
                  /\ Len(levels[1]) = brushCount
                  /\ Len(levels[Len(levels)]) = 1
                  /\ rounds = CeilLog2(brushCount)
                  /\ UnionsIn(levels) = brushCount - 1
                  /\ \A r \in 1..rounds :
                        /\ Len(levels[r + 1]) = (Len(levels[r]) + 1) \div 2
                        /\ \A k \in 1..Len(levels[r + 1]) :
                              IF 2 * k <= Len(levels[r])
                              THEN levels[r + 1][k] \in
                                      {[op |-> "ADDITION", a |-> levels[r][2 * k - 1],
                                        b |-> levels[r][2 * k]], NullBrush}
                              ELSE levels[r + 1][k] = levels[r][2 * k - 1]

\* createRecessDotGeometry(settings).totalHeight at the default opening
\* diameter of 1.5 mm: the depth of a dot recess
RecessDotDepth == 75

\* the depth of a subtractive feature placed on the cylinder
FeatureDepth(f) ==
    IF f.kind = "recess" THEN RecessDotDepth ELSE IndicatorRecessDepth(settings)

\* the solids placed on the cylinder's wall
PlacedOnCylinder ==
    {f \in Range(plate.dots) \cup Range(plate.subtract) :
        f.kind \in {"dot", "recess", "indicatorStart", "indicatorEnd"}}

\* C26: every solid placed on the cylinder has its +Z along the outward
\* radial unit vector of its angle, and stands at the outer radius if it is
\* added, at the outer radius minus its depth if it is subtracted.
C26_RadialOrientation ==
    (Built /\ plate.shape = "cylinder") =>
        \A f \in PlacedOnCylinder :
            /\ f.orient = "out"
            /\ f.w2 = IF f.op = "union"
                      THEN toNumber(cylinderParams.diameter_mm, 3135)
                      ELSE toNumber(cylinderParams.diameter_mm, 3135) - 2 * FeatureDepth(f)

\* the brushes as the builder made them, before balancedUnion's offsets
BrushesBeforeUnion(p) ==
    [k \in 1..Len(p.subtract) |-> [p.subtract[k] EXCEPT !.jit = <<0, 0, 0>>]]

\* the brushes united under a plate's result, from left to right
UnitedInOrder(p) ==
    IF p.union = <<>> \/ p.union[1].op = "NONE" THEN <<>> ELSE Contents(p.union[1].b)

\* C29: balancedUnion leaves the caller's list as it was, the same brushes
\* in the same order, and unites them in the order of the list.
C29_UnionLeavesListAlone ==
    (Built /\ plate.builder \in {"buildCylinderEmbossingPlate", "buildCardCounterPlate",
                                  "buildCylinderCounterPlate"}) =>
        /\ plate.subtract = BrushesBeforeUnion(plate)
        /\ UnitedInOrder(plate) = [k \in 1..Len(plate.subtract) |-> k]

\* the 'translate' requests whose promise is not settled yet
PendingTranslations ==
    {i \in 1..Len(requests) : requests[i].type = "translate" /\ requests[i].settled = <<>>}

\* C27: latest input wins.  Once no translation request is pending, the
\* stored brailleTranslations are the result (the translation, or the text
\* itself as fallback) of the translateText call made last; and no step
\* replaces what a newer call rendered by the result of an older one.
C27_LatestInputWins ==
    /\ [](PendingTranslations = {} /\ translateCalls # <<>>
            => /\ storedTranslations.call = Len(translateCalls)
               /\ storedTranslations.lines \in
                      {Liblouis(translateCalls[Len(translateCalls)].text),
                       Identity(translateCalls[Len(translateCalls)].text)})
    /\ [][storedTranslations'.call >= storedTranslations.call]_vars

\* two translations went through the worker: the older timed out, the newer
\* was answered, and its translation is what is stored
C27_Witness ==
    /\ PendingTranslations = {}
    /\ toMain = <<>>
    /\ \E i, j \in 1..Len(requests) :
          /\ i < j
          /\ requests[i].type = "translate" /\ requests[j].type = "translate"
          /\ requests[i].settled[1].by = "timeout"
          /\ requests[j].settled[1].by = "response"
          /\ requests[j].call = Len(translateCalls)
          /\ storedTranslations = Rendered(requests[j].call, Liblouis(requests[j].text))

\* the worker's handler takes the message posted first
WorkerReceives == worker = "set" /\ toWorker # <<>> /\ toWorker' = Tail(toWorker)

\* the responses a step posted
Posted == SubSeq(toMain', Len(toMain) + 1, Len(toMain'))

\* the worker's steps keep what the page has not taken yet
PostedOnly == Len(toMain') >= Len(toMain) /\ SubSeq(toMain', 1, Len(toMain)) = toMain

\* C28: the worker answers every message it receives exactly once, with the
\* message's id: an 'init' with the result of the initialization, once it is
\* over; a 'translate' received before a successful initialization, or whose
\* output has no braille character, and a message of an unknown type, with
\* { success: false }; and { success: true } goes out for a 'translate' only
\* with a translation of its text that has a braille character.
C28_WorkerAnswersOnce ==
    /\ [][/\ WorkerReceives /\ Head(toWorker).type = "init"
             => /\ toMain' = toMain
                /\ initializing' = Append(initializing, Head(toWorker))
          /\ WorkerReceives /\ Head(toWorker).type # "init"
             => /\ PostedOnly /\ Len(Posted) = 1
                /\ Posted[1].id = Head(toWorker).id
                /\ initializing' = initializing
                /\ ~liblouisReady \/ Head(toWorker).type # "translate"
                      => ~Posted[1].result.success
                /\ Posted[1].result.success
                      => /\ hasBrailleChars(Posted[1].result.translation)
                         /\ Posted[1].result.translation.of = Head(toWorker).text
          /\ initializing' # initializing /\ ~WorkerReceives
             => /\ initializing' = Tail(initializing)
                /\ PostedOnly /\ Len(Posted) = 1
                /\ Posted[1].id = Head(initializing).id
                /\ Posted[1].result.success = liblouisReady'
                /\ Posted[1].result.success \/ liblouisReady' = liblouisReady
         ]_vars
    /\ (initializing # <<>>) ~> (initializing = <<>>)

\* the worker has answered, and the page has not taken yet: a 'translate'
\* with its translation, and a message of an unknown type or a 'translate'
\* that came before the initialization with a failure
C28_Witness ==
    /\ initializing = <<>>
    /\ \E k \in 1..Len(toMain) :
          /\ toMain[k].id > 1
          /\ toMain[k].result.success
    /\ \E k \in 1..Len(toMain) :
          /\ toMain[k].id = 0
          /\ toMain[k].result.error \in {"unknown type", "translate"}

====
